---- MODULE Spec2Model ----
(***************************************************************************)
(* State-machine model of the SHIELD AI streaming engine: the persistence  *)
(* gate (src/src/persistence.py), the alert router (src/src/alerts.py),    *)
(* the temporal backtrack (src/src/backtrack.py), the JSONL sinks          *)
(* (src/src/alert.py, src/src/alert_anticheat.py, src/src/run_anticheat.py)*)
(* the pipeline wiring (src/src/run_pipeline.py), the input validator and  *)
(* factory ingest (src/src/validation.py, src/src/ingest.py), the ERI      *)
(* classification (src/src/eri.py), the tripwire (src/src/tripwire.py),    *)
(* the metrics snapshot writer (src/src/metrics_aggregator.py), the        *)
(* metrics reporter and latency window (src/src/metrics.py), the           *)
(* anti-cheat detectors (src/src/anti_cheat.py), the causal attribution    *)
(* (src/src/attribution.py) and the runner process                         *)
(* (src/src/run_pipeline.py).                                              *)
(*                                                                         *)
(* Conventions.  A Python dict is a function whose DOMAIN is the set of    *)
(* keys present.  A timestamp string "YYYY-MM-DD HH:MM" is the number of   *)
(* minutes since the start of the data; a string strptime rejects is the   *)
(* negative number BadTimestamp.  A parsed datetime is a number of seconds.*)
(* None / NaN in a numeric column is the negative number NULL.             *)
(* pd.NaT in a datetime column is the negative number NaT.                 *)
(***************************************************************************)
EXTENDS Integers, Sequences, FiniteSets, TLC

VARIABLES
    \* ---- persistence gate (src/src/persistence.py)
    counts,         \* _SensorStateStore._counts : sensor_id -> int
    scored,         \* the scored_stream rows processed so far, in arrival order
    confirmed,      \* the confirmed_anomalies rows forwarded so far
    reset_log,      \* the DEBUG "Consecutive counter reset" events logged so far
    \* ---- alert router (src/src/alerts.py)
    cfg_cooldown,   \* CONFIG["ALERT_COOLDOWN_SECONDS"]
    cfg_min_band,   \* CONFIG["ALERT_MIN_RISK_BAND"]
    last_alert,     \* _CooldownStore._last_alert : discharge_point_id -> datetime
    emitted,        \* (discharge_point_id, timestamp) of the active_alerts rows, in order
    cur,            \* the eri_stream row processed last and what became of it
    \* ---- temporal backtrack (src/src/backtrack.py)
    factory_index,  \* the DataFrame build_factory_index returned at startup
    shock,          \* cetp_time of the last attribute_event call
    evidence,       \* the dict the last attribute_event call returned
    matched,        \* position in factory_index of the row it selected (0: none)
    \* ---- sinks (src/src/alert.py, alert_anticheat.py, run_anticheat.py)
    evidence_log,   \* the lines of the evidence JSONL file (ALERT_LOG_PATH)
    tamper_log,     \* the lines of the tamper JSONL file (TAMPER_LOG_PATH)
    evidence_table, \* the rows of the subscribed table now present: key -> row
    lines_written,  \* number of evidence lines appended for each row key
    \* ---- pipeline wiring (src/src/run_pipeline.py)
    cetp_stream,    \* the rows load_cetp_stream has produced, in order
    \* ---- factory ingest (src/src/ingest.py)
    factory_stream, \* the rows of the table load_factory_streams returns, in order
    \* ---- ERI classification (src/src/eri.py)
    eri_thresholds, \* CONFIG["ERI_THRESHOLDS"]: the (upper_bound, band) list
    classified,     \* the (eri_value, band) pairs classify_eri has returned
    \* ---- tripwire (src/src/tripwire.py)
    cetp_input,     \* the cetp_stream rows given to detect_anomalies, in order
    shock_events,   \* the rows of the shock_events table, in order
    \* ---- metrics snapshot (src/src/metrics_aggregator.py)
    snapshot_file,  \* content of CONFIG.metrics_output_path (NoFile: absent)
    temp_files,     \* content of each temp file left in the directory
    write_pc,       \* position of the running _write_metrics_json call
    write_record,   \* the record that call was given
    write_temp,     \* content of the temp file that call created
    written,        \* the records given to _write_metrics_json so far
    write_raised,   \* an exception has propagated out of _write_metrics_json
    \* ---- metrics reporter (src/src/metrics.py)
    mono_clock,         \* time.monotonic()
    interval_seconds,   \* MetricsReporter._interval
    last_report_mono,   \* MetricsReporter._last_report_mono
    constructed_mono,   \* time.monotonic() when the reporter was constructed
    collector_len,      \* len(LatencyCollector._latencies)
    reports,            \* time.monotonic() of each summary logged, in order
    last_result,        \* what the last maybe_report call returned
    \* ---- latency rolling window (src/src/metrics.py)
    collector_maxlen,   \* maxlen given to LatencyCollector.__init__
    latencies,          \* LatencyCollector._latencies, oldest first
    mono_times,         \* LatencyCollector._mono_times, oldest first
    recorded,           \* every (latency_ms, time.monotonic()) given to record, in order
    \* ---- anti-cheat detectors (src/src/anti_cheat.py)
    det_name,           \* the detector that is running
    det_window_minutes, \* its window_minutes argument
    det_df,             \* the DataFrame _load_factories returned, time-sorted
    det_pc,             \* "group": between factories, "loop": in the while loop, "done"
    det_todo,           \* the factory groups the for loop has not visited yet
    det_factory,        \* factory_id of the group being scanned
    det_t,              \* the loop variable t
    det_prev,           \* (prev_cod, prev_tss) of the fingerprint detector
    det_records,        \* the records list
    det_windows,        \* each window the loop has cut: factory, start, selected rows
    \* ---- causal attribution (src/src/attribution.py)
    sensor_z_scores,    \* row["sensor_z_scores"] of the last format_alert call
    attribution_detail, \* the fractions it wrote, in thousandths
    \* ---- pipeline runner process (src/src/run_pipeline.py)
    run_raised,         \* the exception that left run_pipeline ("None": none)
    existing_dirs,      \* the directories present in the file system
    cetp_dir,           \* --cetp-dir
    factory_dir,        \* --factory-dir
    run_pc,             \* the call the runner is about to make
    exit_code,          \* exit status of the process (NoExit: running)
    \* ---- the counter store under threads (src/src/persistence.py)
    thread_pc,          \* position of each thread inside update
    thread_current,     \* the local variable `current` of each thread
    thread_anomaly,     \* the is_anomaly argument of each thread's call
    start_count,        \* the counter before the concurrent calls
    last_get            \* what the last _SensorStateStore.get returned

persistenceVars == <<counts, scored, confirmed, reset_log>>

alertVars == <<cfg_cooldown, cfg_min_band, last_alert, emitted, cur>>

backtrackVars == <<factory_index, shock, evidence, matched>>

sinkVars == <<evidence_log, tamper_log, evidence_table, lines_written>>

ingestVars == <<factory_stream>>

eriVars == <<eri_thresholds, classified>>

tripwireVars == <<cetp_input, shock_events>>

snapshotVars == <<snapshot_file, temp_files, write_pc, write_record, write_temp,
                  written, write_raised>>

reporterVars == <<mono_clock, interval_seconds, last_report_mono, constructed_mono,
                  collector_len, reports, last_result>>

collectorVars == <<collector_maxlen, latencies, mono_times, recorded>>

detectorVars == <<det_name, det_window_minutes, det_df, det_pc, det_todo, det_factory,
                  det_t, det_prev, det_records, det_windows>>

attributionVars == <<sensor_z_scores, attribution_detail>>

runnerVars == <<run_raised, existing_dirs, cetp_dir, factory_dir, run_pc, exit_code>>

threadVars == <<thread_pc, thread_current, thread_anomaly, start_count>>

\* the stages that stand apart from the persistence gate, the router, the
\* backtrack, the sinks and the pipeline wiring
supportVars == <<ingestVars, eriVars, tripwireVars, snapshotVars, reporterVars>>

\* the components that run beside the stream: the latency window and the
\* offline anti-cheat detectors
auxVars == <<collectorVars, detectorVars, attributionVars, runnerVars, threadVars,
             last_get>>

\* what an action of one of these components leaves alone
besideCollector == <<detectorVars, attributionVars, runnerVars, threadVars, last_get>>

besideDetectors == <<collectorVars, attributionVars, runnerVars, threadVars, last_get>>

besideAttribution == <<collectorVars, detectorVars, runnerVars, threadVars, last_get>>

besideRunner == <<collectorVars, detectorVars, attributionVars, threadVars, last_get>>

besideThreads == <<collectorVars, detectorVars, attributionVars, runnerVars, last_get>>

\* the gate, the router, the backtrack, the sinks and the pipeline wiring
coreVars == <<persistenceVars, alertVars, backtrackVars, sinkVars, cetp_stream>>

vars == <<counts, scored, confirmed, reset_log,
          cfg_cooldown, cfg_min_band, last_alert, emitted, cur,
          factory_index, shock, evidence, matched,
          evidence_log, tamper_log, evidence_table, lines_written, cetp_stream,
          factory_stream, eri_thresholds, classified, cetp_input, shock_events,
          snapshot_file, temp_files, write_pc, write_record, write_temp,
          written, write_raised,
          mono_clock, interval_seconds, last_report_mono, constructed_mono,
          collector_len, reports, last_result,
          collector_maxlen, latencies, mono_times, recorded,
          det_name, det_window_minutes, det_df, det_pc, det_todo, det_factory,
          det_t, det_prev, det_records, det_windows,
          sensor_z_scores, attribution_detail,
          run_raised, existing_dirs, cetp_dir, factory_dir, run_pc, exit_code,
          thread_pc, thread_current, thread_anomaly, start_count, last_get>>

\* ------------------------------------------------------------------------
\* Bounds of the model
\* ------------------------------------------------------------------------
MaxReadings == 7

MaxAlerts == 2

MaxMinute == 3

MaxFactoryRows == 2

MaxFactoryMinute == 2

MaxLogLines == 2

MaxCetpRows == 2

MaxIngestRows == 2

MaxEri == 6

MaxTripwireRows == 3

MaxWrites == 3

MaxClock == 6

MaxSamples == 2

MaxReports == 3

MaxRecorded == 4

MaxDetMinute == 2

MaxSensors == 23

MaxThreads == 3

MaxStartCount == 2

\* ------------------------------------------------------------------------
\* Persistence gate
\* ------------------------------------------------------------------------
PERSISTENCE_COUNT == 3

SensorIds == {"S1", "S2"}

\* dict.get(key, 0)
store_get(c, sensor_id) == IF sensor_id \in DOMAIN c THEN c[sensor_id] ELSE 0

\* an assignment that writes the value under every key of the dict
dict_set_every_key(d, key, value) ==
    [k \in (DOMAIN d) \cup {key} |-> value]

\* dict[key] = value
dict_set(d, key, value) ==
    [k \in (DOMAIN d) \cup {key} |-> IF k = key THEN value ELSE d[k]]

update_new_count_capped(current, is_anomaly) ==
    IF is_anomaly
    THEN (IF current + 1 > PERSISTENCE_COUNT THEN PERSISTENCE_COUNT ELSE current + 1)
    ELSE 0

\* _SensorStateStore.update: the new count
update_new_count(current, is_anomaly) ==
    IF is_anomaly THEN current + 1 ELSE 0

update_logs_reset_always(current, is_anomaly) == ~is_anomaly

\* _SensorStateStore.update: whether logger.debug("Consecutive counter reset") runs
update_logs_reset(current, is_anomaly) ==
    (~is_anomaly) /\ current > 0

is_confirmed_strict(consecutive_count) == consecutive_count > PERSISTENCE_COUNT

\* _is_confirmed
is_confirmed(consecutive_count) == consecutive_count >= PERSISTENCE_COUNT

StartPersistence ==
    /\ counts = <<>>
    /\ scored = <<>>
    /\ confirmed = <<>>
    /\ reset_log = <<>>

\* One row of scored_stream through build_confirmed_anomalies:
\* _compute_consecutive_count (the store update), then the _is_confirmed
\* filter and the projection.  The row's timestamp is its arrival position.
ProcessScored(sensor_id, is_anomaly) ==
    /\ Len(scored) < MaxReadings
    /\ LET current   == store_get(counts, sensor_id)
           new_count == update_new_count(current, is_anomaly)
           ts        == Len(scored) + 1
       IN /\ counts' = dict_set(counts, sensor_id, new_count)
          /\ reset_log' = IF update_logs_reset(current, is_anomaly)
                          THEN Append(reset_log, [sensor_id |-> sensor_id, was |-> current])
                          ELSE reset_log
          /\ scored' = Append(scored, [sensor_id |-> sensor_id, timestamp |-> ts,
                                       is_anomaly |-> is_anomaly])
          /\ confirmed' = IF is_confirmed(new_count)
                          THEN Append(confirmed, [sensor_id |-> sensor_id, timestamp |-> ts,
                                                  consecutive_count |-> new_count])
                          ELSE confirmed
    /\ UNCHANGED <<alertVars, backtrackVars, sinkVars, cetp_stream>>
    /\ UNCHANGED supportVars
    /\ UNCHANGED auxVars

\* ------------------------------------------------------------------------
\* Alert router
\* ------------------------------------------------------------------------
BadTimestamp == -1

Timestamps == (0..MaxMinute) \cup {BadTimestamp}

DischargePoints == {"P1", "P2"}

CooldownValues == {0, 60, 120}

RISK_BAND_ORDER == [b \in {"LOW", "MEDIUM", "HIGH", "CRITICAL"} |->
    CASE b = "LOW" -> 0 [] b = "MEDIUM" -> 1 [] b = "HIGH" -> 2 [] b = "CRITICAL" -> 3]

ALERT_LEVEL == [b \in {"MEDIUM", "HIGH", "CRITICAL"} |->
    CASE b = "MEDIUM" -> "INFO" [] b = "HIGH" -> "WARNING" [] b = "CRITICAL" -> "CRITICAL"]

\* risk_band values of eri_stream rows; "UNKNOWN" is any string that is no key
\* of RISK_BAND_ORDER
RiskBands == {"LOW", "MEDIUM", "HIGH", "CRITICAL", "UNKNOWN"}

\* datetime.strptime(timestamp, fmt) raises ValueError
strptime_fails(timestamp) == timestamp < 0

\* datetime.strptime(timestamp, fmt), in seconds
strptime(timestamp) == timestamp * 60

\* RISK_BAND_ORDER.get(band, default)
band_rank(band, default) ==
    IF band \in DOMAIN RISK_BAND_ORDER THEN RISK_BAND_ORDER[band] ELSE default

can_alert_swapped(store, cooldown, discharge_point_id, timestamp) ==
    IF cooldown = 0 THEN TRUE
    ELSE IF strptime_fails(timestamp) THEN TRUE
    ELSE IF discharge_point_id \notin DOMAIN store THEN TRUE
    ELSE (store[discharge_point_id] - strptime(timestamp)) >= cooldown

\* a cooldown test on the distance between the two times, whichever is later
can_alert_either_side(store, cooldown, discharge_point_id, timestamp) ==
    IF cooldown = 0 THEN TRUE
    ELSE IF strptime_fails(timestamp) THEN TRUE
    ELSE IF discharge_point_id \notin DOMAIN store THEN TRUE
    ELSE \/ (strptime(timestamp) - store[discharge_point_id]) >= cooldown
         \/ (store[discharge_point_id] - strptime(timestamp)) >= cooldown

\* _CooldownStore.can_alert
can_alert(store, cooldown, discharge_point_id, timestamp) ==
    IF cooldown = 0 THEN TRUE
    ELSE IF strptime_fails(timestamp) THEN TRUE
    ELSE IF discharge_point_id \notin DOMAIN store THEN TRUE
    ELSE (strptime(timestamp) - store[discharge_point_id]) >= cooldown

record_forgets_on_bad(store, discharge_point_id, timestamp) ==
    IF strptime_fails(timestamp)
    THEN [k \in (DOMAIN store) \ {discharge_point_id} |-> store[k]]
    ELSE dict_set(store, discharge_point_id, strptime(timestamp))

\* _CooldownStore.record: the new _last_alert
record(store, discharge_point_id, timestamp) ==
    IF strptime_fails(timestamp) THEN store
    ELSE dict_set(store, discharge_point_id, strptime(timestamp))

udf_not_in_cooldown_record_first(store, cooldown, discharge_point_id, timestamp) ==
    [passed |-> can_alert(store, cooldown, discharge_point_id, timestamp),
     store  |-> record(store, discharge_point_id, timestamp)]

\* _udf_not_in_cooldown: the verdict and the store it leaves
udf_not_in_cooldown(store, cooldown, discharge_point_id, timestamp) ==
    IF ~can_alert(store, cooldown, discharge_point_id, timestamp)
    THEN [passed |-> FALSE, store |-> store]
    ELSE [passed |-> TRUE, store |-> record(store, discharge_point_id, timestamp)]

band_passes_threshold_unknown_medium(min_band, risk_band) ==
    band_rank(risk_band, 1) >= band_rank(min_band, 1)

\* _band_passes_threshold
band_passes_threshold(min_band, risk_band) ==
    band_rank(risk_band, -1) >= band_rank(min_band, 1)

\* _get_alert_level
get_alert_level(risk_band) ==
    IF risk_band \in DOMAIN ALERT_LEVEL THEN ALERT_LEVEL[risk_band] ELSE ""

\* _is_high_or_critical
is_high_or_critical(risk_band) == band_rank(risk_band, 0) >= RISK_BAND_ORDER["HIGH"]

\* _mask_str_field
mask_str_field(risk_band, value) == IF is_high_or_critical(risk_band) THEN value ELSE ""

\* _mask_float_field
mask_float_field(risk_band, value) == IF is_high_or_critical(risk_band) THEN value ELSE 0

\* the eri_stream rows offered to the router; the columns the router only
\* masks carry one fixed value each
EriRows ==
    [discharge_point_id : DischargePoints, timestamp : Timestamps, risk_band : RiskBands,
     sensitivity_factor : {2}, top_contributor : {"pH"}, alert_message : {"msg"}]

\* _attach_alert_level, _apply_field_masking and _project_alert_output
alert_output(row) ==
    [discharge_point_id |-> row.discharge_point_id,
     timestamp          |-> row.timestamp,
     risk_band          |-> row.risk_band,
     alert_level        |-> get_alert_level(row.risk_band),
     sensitivity_factor |-> mask_float_field(row.risk_band, row.sensitivity_factor),
     top_contributor    |-> mask_str_field(row.risk_band, row.top_contributor),
     alert_message      |-> mask_str_field(row.risk_band, row.alert_message)]

NoRow ==
    [discharge_point_id |-> "", timestamp |-> BadTimestamp, risk_band |-> "",
     sensitivity_factor |-> 0, top_contributor |-> "", alert_message |-> ""]

NoAlert ==
    [discharge_point_id |-> "", timestamp |-> BadTimestamp, risk_band |-> "",
     alert_level |-> "", sensitivity_factor |-> 0, top_contributor |-> "",
     alert_message |-> ""]

\* the router before any row: config defaults of the tests, empty store
IdleAlerts ==
    /\ cfg_cooldown = 60
    /\ cfg_min_band = "MEDIUM"
    /\ last_alert = <<>>
    /\ emitted = <<>>
    /\ cur = [row |-> NoRow, status |-> "none", alert |-> NoAlert]

\* the router before any row, for every configuration
StartAlerts ==
    /\ cfg_cooldown \in CooldownValues
    /\ cfg_min_band \in DOMAIN RISK_BAND_ORDER
    /\ last_alert = <<>>
    /\ emitted = <<>>
    /\ cur = [row |-> NoRow, status |-> "none", alert |-> NoAlert]

\* One eri_stream row through build_alert_stream: _filter_by_band, then
\* _filter_by_cooldown (which reads and updates the store), then level,
\* masking and projection.
RouterStep(row) ==
    /\ Len(emitted) < MaxAlerts
    /\ IF ~band_passes_threshold(cfg_min_band, row.risk_band)
       THEN /\ cur' = [row |-> row, status |-> "dropped", alert |-> NoAlert]
            /\ UNCHANGED <<last_alert, emitted>>
       ELSE LET verdict == udf_not_in_cooldown(last_alert, cfg_cooldown,
                                               row.discharge_point_id, row.timestamp)
            IN /\ last_alert' = verdict.store
               /\ IF verdict.passed
                  THEN /\ emitted' = Append(emitted,
                              [discharge_point_id |-> row.discharge_point_id,
                               timestamp |-> row.timestamp])
                       /\ cur' = [row |-> row, status |-> "emitted",
                                  alert |-> alert_output(row)]
                  ELSE /\ emitted' = emitted
                       /\ cur' = [row |-> row, status |-> "suppressed", alert |-> NoAlert]
    /\ UNCHANGED <<cfg_cooldown, cfg_min_band>>

\* build_alert_stream on its own, with no sink attached
AlertRow(row) ==
    /\ RouterStep(row)
    /\ UNCHANGED <<persistenceVars, backtrackVars, sinkVars, cetp_stream>>
    /\ UNCHANGED supportVars
    /\ UNCHANGED auxVars

\* ------------------------------------------------------------------------
\* Temporal backtrack
\* ------------------------------------------------------------------------
NULL == -1

PIPE_TRAVEL_MINUTES == 15

ASOF_TOLERANCE_SECONDS == 120

\* attributed_factory = None
NoFactory == "None"

FactoryIds == {"FACTORY_A", "FACTORY_B"}

\* cod, bod, tss in thousandths of a mg/L, so that round(x, 2) is visible
CodValues == {NULL, 120000, 450004}

AuxValues == {[bod |-> NULL, tss |-> 80004], [bod |-> 30006, tss |-> NULL]}

\* pd.NaT, the time_dt of a time that does not parse
NaT == -1

\* the rows of the factory CSV files; the time BadTimestamp does not parse,
\* and the rows carrying it have the highest cod
FactoryRows ==
    {[factory_id |-> f, time |-> t, cod |-> c, bod |-> a.bod, tss |-> a.tss] :
        f \in FactoryIds, t \in 0..MaxFactoryMinute, c \in CodValues, a \in AuxValues}
    \cup
    {[factory_id |-> f, time |-> BadTimestamp, cod |-> 450004, bod |-> NULL, tss |-> 80004] :
        f \in FactoryIds}

RECURSIVE SeqsUpTo(_, _)
\* the sequences over S of length at most n
SeqsUpTo(S, n) ==
    IF n = 0 THEN {<<>>}
    ELSE LET shorter == SeqsUpTo(S, n - 1)
         IN shorter \cup {Append(q, x) : q \in {r \in shorter : Len(r) = n - 1}, x \in S}

\* the concatenation of the factory_*.csv files, in sorted file order
RawDatasets == SeqsUpTo(FactoryRows, MaxFactoryRows)

\* the shock times offered to attribute_event; BadTimestamp does not parse
CetpTimes ==
    (PIPE_TRAVEL_MINUTES..(PIPE_TRAVEL_MINUTES + MaxFactoryMinute + 3)) \cup {BadTimestamp}

\* round(float(x), 2) on thousandths: to the nearest hundredth, ties to even
round2(x) ==
    LET r == x % 10
        base == x - r
    IN IF r < 5 THEN base
       ELSE IF r > 5 THEN base + 10
       ELSE IF (base \div 10) % 2 = 0 THEN base ELSE base + 10

dropna_cod_keeps_all(raw) == raw

\* df.dropna(subset=["cod"]): the rows of raw with a cod, in order
RECURSIVE dropna_cod(_)
dropna_cod(raw) ==
    IF raw = <<>> THEN <<>>
    ELSE IF Head(raw).cod = NULL THEN dropna_cod(Tail(raw))
    ELSE <<Head(raw)>> \o dropna_cod(Tail(raw))

\* pd.to_datetime(time, format=..., errors="coerce"), in seconds
to_datetime_coerce(time) == IF strptime_fails(time) THEN NaT ELSE strptime(time)

\* the row of the index: time_dt is the parsed time
index_row(r) ==
    [factory_id |-> r.factory_id, time_dt |-> to_datetime_coerce(r.time), cod |-> r.cod,
     bod |-> r.bod, tss |-> r.tss]

\* a may stand before b in the sorted frame: NaT goes last
time_le(a, b) == b = NaT \/ (a # NaT /\ a <= b)

\* sort_values("time_dt") with the default, unstable quicksort: every
\* arrangement of the rows that is ascending in time_dt can come out
sort_values_time(rows) ==
    LET n == Len(rows)
        perms == {p \in [1..n -> 1..n] : \A i, j \in 1..n : i # j => p[i] # p[j]}
    IN {[i \in 1..n |-> rows[p[i]]] :
            p \in {q \in perms : \A i, j \in 1..n :
                        i < j => time_le(rows[q[i]].time_dt, rows[q[j]].time_dt)}}

\* build_factory_index: the indexes it can return for the raw rows
build_factory_index(raw) ==
    LET kept == dropna_cod(raw)
        rows == [i \in 1..Len(kept) |-> index_row(kept[i])]
    IN sort_values_time(rows)

in_window_open_above(time_dt, t_lower, t_upper) ==
    time_dt # NaT /\ time_dt >= t_lower /\ time_dt < t_upper

\* the window mask of attribute_event; every comparison with NaT is False
in_window(time_dt, t_lower, t_upper) ==
    time_dt # NaT /\ time_dt >= t_lower /\ time_dt <= t_upper

window_rows_no_lower(index, t_lower, t_upper) ==
    {i \in 1..Len(index) : index[i].time_dt # NaT /\ index[i].time_dt <= t_upper}

\* window_rows: the positions of the index rows in the window
window_rows(index, t_lower, t_upper) ==
    {i \in 1..Len(index) : in_window(index[i].time_dt, t_lower, t_upper)}

\* window_rows["cod"].idxmax(): the first position holding the maximum cod
idxmax_cod(index, window) ==
    CHOOSE i \in window :
        /\ \A j \in window : index[j].cod <= index[i].cod
        /\ \A j \in window : index[j].cod = index[i].cod => i <= j

NoEvidence ==
    [status |-> "none", attributed_factory |-> NoFactory, factory_cod |-> NULL,
     factory_bod |-> NULL, factory_tss |-> NULL, backtrack_time |-> BadTimestamp]

\* attribute_event: the dict returned and the position of the selected row.
\* An unparseable cetp_time gives NaT: every comparison is False, the window
\* is empty and NaT.strftime raises.
attribute_event(cetp_time, index, travel_minutes, tolerance_seconds) ==
    IF strptime_fails(cetp_time)
    THEN [result |-> [NoEvidence EXCEPT !.status = "raised"], best |-> 0]
    ELSE LET t           == strptime(cetp_time)
             t_backtrack == t - travel_minutes * 60
             t_lower     == t_backtrack - tolerance_seconds
             t_upper     == t_backtrack + tolerance_seconds
             window      == window_rows(index, t_lower, t_upper)
         IN IF window = {}
            THEN [result |-> [status |-> "ok", attributed_factory |-> NoFactory,
                              factory_cod |-> NULL, factory_bod |-> NULL,
                              factory_tss |-> NULL,
                              backtrack_time |-> t_backtrack \div 60],
                  best |-> 0]
            ELSE LET b == idxmax_cod(index, window)
                 IN [result |-> [status |-> "ok",
                                 attributed_factory |-> index[b].factory_id,
                                 factory_cod |-> round2(index[b].cod),
                                 factory_bod |-> IF index[b].bod # NULL
                                                 THEN round2(index[b].bod) ELSE NULL,
                                 factory_tss |-> IF index[b].tss # NULL
                                                 THEN round2(index[b].tss) ELSE NULL,
                                 backtrack_time |-> t_backtrack \div 60],
                        best |-> b]

\* no factory data loaded, no shock attributed
IdleBacktrack ==
    /\ factory_index = <<>>
    /\ shock = BadTimestamp
    /\ evidence = NoEvidence
    /\ matched = 0

\* startup: build_factory_index has run on the factory files
StartBacktrack ==
    /\ \E raw \in RawDatasets : factory_index \in build_factory_index(raw)
    /\ shock = BadTimestamp
    /\ evidence = NoEvidence
    /\ matched = 0

\* one call of attribute_event with the configured travel time and tolerance
AttributeEvent(cetp_time) ==
    /\ LET out == attribute_event(cetp_time, factory_index,
                                  PIPE_TRAVEL_MINUTES, ASOF_TOLERANCE_SECONDS)
       IN /\ evidence' = out.result
          /\ matched' = out.best
    /\ shock' = cetp_time
    /\ UNCHANGED factory_index
    /\ UNCHANGED <<persistenceVars, alertVars, sinkVars, cetp_stream>>
    /\ UNCHANGED supportVars
    /\ UNCHANGED auxVars

\* ------------------------------------------------------------------------
\* Sinks: evidence log and tamper log
\* ------------------------------------------------------------------------
\* A log line is the record json.dumps writes, without logged_at (the wall
\* clock at the time of the write).

RowKeys == {"k1", "k2"}

\* row.get(field): None for a numeric or time column the row lacks
get_num(row, field) == IF field \in DOMAIN row THEN row[field] ELSE NULL

\* row.get(field): None for a string column the row lacks
get_str(row, field) == IF field \in DOMAIN row THEN row[field] ELSE NoFactory

\* the record _write_evidence_row builds from the row
evidence_record(row) ==
    [cetp_event_time    |-> get_num(row, "cetp_event_time"),
     cetp_cod           |-> get_num(row, "cetp_cod"),
     breach_mag         |-> get_num(row, "breach_mag"),
     alert_level        |-> get_str(row, "alert_level"),
     backtrack_time     |-> get_num(row, "backtrack_time"),
     attributed_factory |-> get_str(row, "attributed_factory"),
     factory_cod        |-> get_num(row, "factory_cod"),
     factory_bod        |-> get_num(row, "factory_bod"),
     factory_tss        |-> get_num(row, "factory_tss")]

\* _write_evidence_row: the evidence file after the callback
write_evidence_row(log, row, is_addition) ==
    IF ~is_addition THEN log ELSE Append(log, evidence_record(row))

\* _write_tamper: the tamper file after the append
write_tamper(log, rec) == Append(log, rec)

\* run_anticheat: the tamper file after open(TAMPER_LOG_PATH, "w") and the
\* write of every record
run_anticheat_file(log, records) == records

TamperTypes == {"ZERO_VARIANCE", "DILUTION_TAMPER", "BLACKOUT_TAMPER"}

\* rows of the detector tables handed to the tamper callbacks; they carry no
\* tamper_type column, so each callback's default applies
TamperRows == [factory_id : {"FACTORY_C"}, window_end : {5, 10}]

\* the record _zero_var_callback / _fingerprint_callback / _blackout_callback
\* builds (the detector-specific columns are passed through and left out)
tamper_record(default_type, row) ==
    [tamper_type |-> IF "tamper_type" \in DOMAIN row THEN row.tamper_type ELSE default_type,
     factory_id  |-> get_str(row, "factory_id"),
     window_end  |-> get_num(row, "window_end")]

TamperRecords == {tamper_record(k, row) : k \in TamperTypes, row \in TamperRows}

\* what run_all_detectors can return: tamper records sorted by window_end
DetectorOutputs ==
    {recs \in SeqsUpTo(TamperRecords, MaxLogLines) :
        \A i, j \in 1..Len(recs) : i < j => recs[i].window_end <= recs[j].window_end}

\* evidence rows as the backtrack stage produces them; a correction of a row
\* changes its attribution
EvidenceRows ==
    {[cetp_event_time |-> 23, cetp_cod |-> 300000, breach_mag |-> 107000,
      alert_level |-> "MEDIUM", backtrack_time |-> 8, attributed_factory |-> f,
      factory_cod |-> 450000, factory_bod |-> NULL, factory_tss |-> 80000] :
        f \in FactoryIds}

StartSinks ==
    /\ evidence_log = <<>>
    /\ tamper_log = <<>>
    /\ evidence_table = <<>>
    /\ lines_written = [k \in RowKeys |-> 0]

\* the subscribe callback of the evidence table for one change of the row
\* with this key: an addition of a row not present, or the retraction of the
\* row present
EvidenceCallback(key, row, is_addition) ==
    /\ Len(evidence_log) < MaxLogLines
    /\ IF is_addition
       THEN /\ key \notin DOMAIN evidence_table
            /\ evidence_table' = dict_set(evidence_table, key, row)
       ELSE /\ key \in DOMAIN evidence_table
            /\ row = evidence_table[key]
            /\ evidence_table' = [k \in (DOMAIN evidence_table) \ {key} |-> evidence_table[k]]
    /\ evidence_log' = write_evidence_row(evidence_log, row, is_addition)
    /\ lines_written' = [lines_written EXCEPT
                            ![key] = @ + (Len(evidence_log') - Len(evidence_log))]
    /\ UNCHANGED tamper_log
    /\ UNCHANGED <<persistenceVars, alertVars, backtrackVars, cetp_stream>>
    /\ UNCHANGED supportVars
    /\ UNCHANGED auxVars

\* _zero_var_callback, _fingerprint_callback or _blackout_callback
TamperCallback(default_type, row, is_addition) ==
    /\ Len(tamper_log) < MaxLogLines
    /\ tamper_log' = IF ~is_addition THEN tamper_log
                     ELSE write_tamper(tamper_log, tamper_record(default_type, row))
    /\ UNCHANGED <<evidence_log, evidence_table, lines_written>>
    /\ UNCHANGED <<persistenceVars, alertVars, backtrackVars, cetp_stream>>
    /\ UNCHANGED supportVars
    /\ UNCHANGED auxVars

\* one complete run of run_anticheat, run_all_detectors returning records
RunAnticheat(records) ==
    /\ tamper_log' = run_anticheat_file(tamper_log, records)
    /\ UNCHANGED <<evidence_log, evidence_table, lines_written>>
    /\ UNCHANGED <<persistenceVars, alertVars, backtrackVars, cetp_stream>>
    /\ UNCHANGED supportVars
    /\ UNCHANGED auxVars

\* ------------------------------------------------------------------------
\* Pipeline wiring
\* ------------------------------------------------------------------------
\* cod in thousandths of a mg/L
COD_THRESHOLD == 250000

\* the rows of the CETP CSV file
CetpRows == [time : {23, 24}, cetp_inlet_cod : {NULL, 185000, 300000}]

\* the eri_stream rows offered to the pipeline
PipelineEriRows ==
    {r \in EriRows : /\ r.discharge_point_id = "P1"
                     /\ r.timestamp \in {0, 1}
                     /\ r.risk_band \in {"LOW", "HIGH"}}

\* load_cetp_stream: raw.filter(cetp_inlet_cod.is_not_none())
cetp_clean(stream, row) ==
    IF row.cetp_inlet_cod = NULL THEN stream ELSE Append(stream, row)

\* A row of the CETP file through the graph build_pipeline builds:
\* load_cetp_stream keeps it when its cod is not None; build_pipeline passes
\* cetp_stream to no other stage and to no sink.
CetpRow(row) ==
    /\ Len(cetp_stream) < MaxCetpRows
    /\ cetp_stream' = cetp_clean(cetp_stream, row)
    /\ UNCHANGED <<persistenceVars, alertVars, backtrackVars, sinkVars>>
    /\ UNCHANGED supportVars
    /\ UNCHANGED auxVars

\* A row of eri_stream through the graph build_pipeline builds:
\* build_alert_stream, then attach_alert_sink(active_alerts), whose callback
\* _write_evidence_row gets the addition of each active_alerts row.
PipelineEriRow(row) ==
    /\ Len(evidence_log) < MaxLogLines
    /\ RouterStep(row)
    /\ evidence_log' = IF cur'.status = "emitted"
                       THEN write_evidence_row(evidence_log, cur'.alert, TRUE)
                       ELSE evidence_log
    /\ UNCHANGED <<tamper_log, evidence_table, lines_written>>
    /\ UNCHANGED <<persistenceVars, backtrackVars, cetp_stream>>
    /\ UNCHANGED supportVars
    /\ UNCHANGED auxVars

\* ------------------------------------------------------------------------
\* Input validator and factory ingest
\* ------------------------------------------------------------------------
\* A value is a whole number of units.  Sentinels of the value column: NULL
\* (None), NonFinite (nan or inf), NotNumeric (a str).  A timestamp that is a
\* numeric string ("1740743600") is EpochString: float() accepts it,
\* fromisoformat and strptime do not.
NonFinite == -2

NotNumeric == -3

EpochString == -2

\* an id of more than CONFIG.max_sensor_id_length characters; every other id
\* of the model is within the limit
LongSensorId == "aaaaaaaaaaaaaaaaaaaaaaaaaaaaaaaaaaaaaaaaaaaaaaaaaaaaaaaaaaaaaaaaaaaaa"

\* _cfg.sensor_value_range, in iteration order
SENSOR_VALUE_RANGE ==
    <<[pattern |-> "*ph*",        v_min |-> 0, v_max |-> 14],
      [pattern |-> "*turbidity*", v_min |-> 0, v_max |-> 1000],
      [pattern |-> "*flow*",      v_min |-> 0, v_max |-> 10000],
      [pattern |-> "*",           v_min |-> -1000000000, v_max |-> 1000000000]>>

\* fnmatch.fnmatch(sensor_id, pattern) for the ids of the model
fnmatch(sensor_id, pattern) ==
    CASE pattern = "*"           -> TRUE
      [] pattern = "*ph*"        -> sensor_id \in {"ph_sensor_1"}
      [] pattern = "*turbidity*" -> sensor_id \in {"turbidity_1"}
      [] pattern = "*flow*"      -> sensor_id \in {"flow_meter_A"}
      [] OTHER                   -> FALSE

\* record.get(field) is None, for a string field
str_is_none(rec, field) == field \notin DOMAIN rec \/ rec[field] = NoFactory

\* record.get(field) is None, for a numeric or time field
num_is_none(rec, field) == field \notin DOMAIN rec \/ rec[field] = NULL

\* the first range of SENSOR_VALUE_RANGE whose pattern matches (0: none)
matched_range(sensor_id) ==
    LET hits == {i \in 1..Len(SENSOR_VALUE_RANGE) :
                    fnmatch(sensor_id, SENSOR_VALUE_RANGE[i].pattern)}
    IN IF hits = {} THEN 0 ELSE CHOOSE i \in hits : \A j \in hits : i <= j

\* the timestamp check of validate_record: fromisoformat, then float()
timestamp_ok(timestamp) == timestamp >= 0 \/ timestamp = EpochString

\* validate_record: (is_valid, reason)
validate_record(rec) ==
    IF str_is_none(rec, "sensor_id") THEN [valid |-> FALSE, reason |-> "missing 'sensor_id'"]
    ELSE IF num_is_none(rec, "timestamp") THEN [valid |-> FALSE, reason |-> "missing 'timestamp'"]
    ELSE IF num_is_none(rec, "value") THEN [valid |-> FALSE, reason |-> "missing 'value'"]
    ELSE IF rec.sensor_id = "" THEN [valid |-> FALSE, reason |-> "invalid 'sensor_id type/content"]
    ELSE IF rec.sensor_id = LongSensorId
         THEN [valid |-> FALSE, reason |-> "sensor_id exceeds max length"]
    ELSE IF rec.value = NotNumeric THEN [valid |-> FALSE, reason |-> "value must be numeric"]
    ELSE IF rec.value = NonFinite THEN [valid |-> FALSE, reason |-> "value must be finite"]
    ELSE IF ~timestamp_ok(rec.timestamp)
         THEN [valid |-> FALSE, reason |-> "invalid 'timestamp' format"]
    ELSE LET m == matched_range(rec.sensor_id)
         IN IF m # 0 /\ ~(SENSOR_VALUE_RANGE[m].v_min <= rec.value
                           /\ rec.value <= SENSOR_VALUE_RANGE[m].v_max)
            THEN [valid |-> FALSE, reason |-> "value out of range"]
            ELSE [valid |-> TRUE, reason |-> ""]

\* the rows of the factory CSV files as FactorySchema reads them
IngestRows ==
    [factory_id : {"FACTORY_A", "ph_sensor_1", ""},
     time       : {0, 1, BadTimestamp, EpochString},
     cod        : {NULL, 7, 120, 2000000000}]

\* the status column load_factory_streams adds
status_tag(row) == IF row.cod # NULL THEN "NORMAL" ELSE "BLACKOUT"

\* load_factory_streams: the row of the returned table for a row of the files
factory_with_status(row) ==
    [factory_id |-> row.factory_id, time |-> row.time, cod |-> row.cod,
     status |-> status_tag(row)]

IdleIngest == factory_stream = <<>>

\* one row of a factory file through load_factory_streams
IngestFactoryRow(row) ==
    /\ Len(factory_stream) < MaxIngestRows
    /\ factory_stream' = Append(factory_stream, factory_with_status(row))
    /\ UNCHANGED <<eriVars, tripwireVars, snapshotVars, reporterVars>>
    /\ UNCHANGED coreVars
    /\ UNCHANGED auxVars

\* ------------------------------------------------------------------------
\* ERI classification
\* ------------------------------------------------------------------------
\* eri values and thresholds in tenths

\* the eri values offered to classify_eri
EriValues == 0..MaxEri

\* the ascending (low, medium, high) settings of the ERI thresholds
ThresholdSettings ==
    {<<[upper_bound |-> lo, band |-> "LOW"],
       [upper_bound |-> me, band |-> "MEDIUM"],
       [upper_bound |-> hi, band |-> "HIGH"]>> :
        lo \in 1..(MaxEri - 1), me \in 1..(MaxEri - 1), hi \in 1..(MaxEri - 1)}

classify_eri_inclusive(thresholds, eri_value) ==
    LET below == {i \in 1..Len(thresholds) : eri_value <= thresholds[i].upper_bound}
    IN IF below = {} THEN "CRITICAL"
       ELSE thresholds[CHOOSE i \in below : \A j \in below : i <= j].band

\* classify_eri: the band of the first tuple with eri_value < upper_bound
classify_eri(thresholds, eri_value) ==
    LET below == {i \in 1..Len(thresholds) : eri_value < thresholds[i].upper_bound}
    IN IF below = {} THEN "CRITICAL"
       ELSE thresholds[CHOOSE i \in below : \A j \in below : i <= j].band

IdleEri ==
    /\ eri_thresholds = <<[upper_bound |-> 2, band |-> "LOW"],
                          [upper_bound |-> 3, band |-> "MEDIUM"],
                          [upper_bound |-> 4, band |-> "HIGH"]>>
    /\ classified = {}

\* startup with thresholds that config validation accepts (strictly ascending)
StartEri ==
    /\ eri_thresholds \in {t \in ThresholdSettings :
            t[1].upper_bound < t[2].upper_bound /\ t[2].upper_bound < t[3].upper_bound}
    /\ classified = {}

\* one call of classify_eri
ClassifyEri(eri_value) ==
    /\ classified' = classified \cup
            {[eri |-> eri_value, band |-> classify_eri(eri_thresholds, eri_value)]}
    /\ UNCHANGED eri_thresholds
    /\ UNCHANGED <<ingestVars, tripwireVars, snapshotVars, reporterVars>>
    /\ UNCHANGED coreVars
    /\ UNCHANGED auxVars

\* ------------------------------------------------------------------------
\* Tripwire
\* ------------------------------------------------------------------------
\* cod in thousandths of a mg/L
COD_BASELINE == 193000

\* the clean cetp_stream rows given to the tripwire
TripwireRows == [time : {23, 24}, cetp_inlet_cod : {185000, 250000, 300000, 400000}]

tripwire_filter_strict(row) == row.cetp_inlet_cod > COD_THRESHOLD

\* Step 1 of detect_anomalies: the threshold filter
tripwire_filter(row) == row.cetp_inlet_cod >= COD_THRESHOLD

\* Steps 2 and 3 of detect_anomalies: the row of shock_events
shock_event(row) ==
    [time        |-> row.time,
     cod_value   |-> row.cetp_inlet_cod,
     breach_mag  |-> row.cetp_inlet_cod - COD_BASELINE,
     alert_level |-> IF row.cetp_inlet_cod >= COD_BASELINE * 2 THEN "HIGH" ELSE "MEDIUM"]

IdleTripwire ==
    /\ cetp_input = <<>>
    /\ shock_events = <<>>

\* one cetp_stream row through detect_anomalies
TripwireRow(row) ==
    /\ Len(cetp_input) < MaxTripwireRows
    /\ cetp_input' = Append(cetp_input, row)
    /\ shock_events' = IF tripwire_filter(row)
                       THEN Append(shock_events, shock_event(row))
                       ELSE shock_events
    /\ UNCHANGED <<ingestVars, eriVars, snapshotVars, reporterVars>>
    /\ UNCHANGED coreVars
    /\ UNCHANGED auxVars

\* ------------------------------------------------------------------------
\* Metrics snapshot writer
\* ------------------------------------------------------------------------
\* A file is the record whose JSON it holds and whether the JSON is complete.

\* the metrics records given to the writer
MetricsRecords == {"m1", "m2"}

\* no file at the path
NoFile == [record |-> "", complete |-> FALSE, exists |-> FALSE]

\* the temp file as NamedTemporaryFile creates it
new_temp(metrics_record) == [record |-> metrics_record, complete |-> FALSE, exists |-> TRUE]

\* the temp file after json.dump has written all of the record
dumped(tf) == [tf EXCEPT !.complete = TRUE]

\* os.replace(temp_name, out_path): the content of out_path afterwards
os_replace(temp, out) == temp

IdleSnapshot ==
    /\ snapshot_file = NoFile
    /\ temp_files = 0
    /\ write_pc = "idle"
    /\ write_record = ""
    /\ write_temp = NoFile
    /\ written = <<>>
    /\ write_raised = FALSE

\* _write_metrics_json is called: the directory is made and the temp file
\* is created and opened
BeginWrite(metrics_record) ==
    /\ write_pc = "idle"
    /\ Len(written) < MaxWrites
    /\ written' = Append(written, metrics_record)
    /\ write_record' = metrics_record
    /\ write_temp' = new_temp(metrics_record)
    /\ temp_files' = temp_files + 1
    /\ write_pc' = "dump"
    /\ UNCHANGED <<snapshot_file, write_raised>>
    /\ UNCHANGED <<ingestVars, eriVars, tripwireVars, reporterVars>>
    /\ UNCHANGED coreVars
    /\ UNCHANGED auxVars

\* json.dump and the close of the temp file succeed
DumpOk ==
    /\ write_pc = "dump"
    /\ write_temp' = dumped(write_temp)
    /\ write_pc' = "replace"
    /\ UNCHANGED <<snapshot_file, temp_files, write_record, written, write_raised>>
    /\ UNCHANGED <<ingestVars, eriVars, tripwireVars, reporterVars>>
    /\ UNCHANGED coreVars
    /\ UNCHANGED auxVars

\* json.dump or the close of the temp file raises (disk full, a value that
\* is not serialisable): the with block is outside the try, the temp file
\* was created with delete=False, and the exception leaves the function
DumpFails ==
    /\ write_pc = "dump"
    /\ write_raised' = TRUE
    /\ write_pc' = "idle"
    /\ write_temp' = NoFile
    /\ UNCHANGED <<snapshot_file, temp_files, write_record, written>>
    /\ UNCHANGED <<ingestVars, eriVars, tripwireVars, reporterVars>>
    /\ UNCHANGED coreVars
    /\ UNCHANGED auxVars

\* os.replace succeeds: the temp file becomes the snapshot
ReplaceOk ==
    /\ write_pc = "replace"
    /\ snapshot_file' = os_replace(write_temp, snapshot_file)
    /\ temp_files' = temp_files - 1
    /\ write_temp' = NoFile
    /\ write_pc' = "idle"
    /\ UNCHANGED <<write_record, written, write_raised>>
    /\ UNCHANGED <<ingestVars, eriVars, tripwireVars, reporterVars>>
    /\ UNCHANGED coreVars
    /\ UNCHANGED auxVars

\* os.replace raises: the error is logged and the temp file removed
ReplaceFails ==
    /\ write_pc = "replace"
    /\ temp_files' = temp_files - 1
    /\ write_temp' = NoFile
    /\ write_pc' = "idle"
    /\ UNCHANGED <<snapshot_file, write_record, written, write_raised>>
    /\ UNCHANGED <<ingestVars, eriVars, tripwireVars, reporterVars>>
    /\ UNCHANGED coreVars
    /\ UNCHANGED auxVars

\* ------------------------------------------------------------------------
\* Metrics reporter
\* ------------------------------------------------------------------------
\* time.monotonic() in whole seconds

\* the interval_seconds the reporter is constructed with
IntervalValues == {0, 2, 3}

interval_elapsed_always(now, last, interval) == TRUE

\* the gate of maybe_report: not (now - last < interval)
interval_elapsed(now, last, interval) == ~(now - last < interval)

\* no reporter in use
IdleReporter ==
    /\ mono_clock = 0
    /\ interval_seconds = 0
    /\ last_report_mono = 0
    /\ constructed_mono = 0
    /\ collector_len = 0
    /\ reports = <<>>
    /\ last_result = "none"

\* MetricsReporter.__init__ with an empty LatencyCollector
StartReporter ==
    /\ mono_clock \in 0..1
    /\ interval_seconds \in IntervalValues
    /\ last_report_mono = mono_clock
    /\ constructed_mono = mono_clock
    /\ collector_len = 0
    /\ reports = <<>>
    /\ last_result = "none"

\* the monotonic clock advances
Tick ==
    /\ mono_clock < MaxClock
    /\ mono_clock' = mono_clock + 1
    /\ UNCHANGED <<interval_seconds, last_report_mono, constructed_mono,
                   collector_len, reports, last_result>>
    /\ UNCHANGED <<ingestVars, eriVars, tripwireVars, snapshotVars>>
    /\ UNCHANGED coreVars
    /\ UNCHANGED auxVars

\* LatencyCollector.record
RecordLatency ==
    /\ collector_len < MaxSamples
    /\ collector_len' = collector_len + 1
    /\ UNCHANGED <<mono_clock, interval_seconds, last_report_mono, constructed_mono,
                   reports, last_result>>
    /\ UNCHANGED <<ingestVars, eriVars, tripwireVars, snapshotVars>>
    /\ UNCHANGED coreVars
    /\ UNCHANGED auxVars

\* MetricsReporter.maybe_report
MaybeReport ==
    /\ Len(reports) < MaxReports
    /\ IF collector_len = 0
       THEN /\ last_result' = "False"
            /\ UNCHANGED <<last_report_mono, reports>>
       ELSE IF ~interval_elapsed(mono_clock, last_report_mono, interval_seconds)
       THEN /\ last_result' = "False"
            /\ UNCHANGED <<last_report_mono, reports>>
       ELSE /\ last_report_mono' = mono_clock
            /\ reports' = Append(reports, mono_clock)
            /\ last_result' = "True"
    /\ UNCHANGED <<mono_clock, interval_seconds, constructed_mono, collector_len>>
    /\ UNCHANGED <<ingestVars, eriVars, tripwireVars, snapshotVars>>
    /\ UNCHANGED coreVars
    /\ UNCHANGED auxVars

\* ------------------------------------------------------------------------
\* Latency rolling window (src/src/metrics.py, LatencyCollector)
\* ------------------------------------------------------------------------
ROLLING_WINDOW_SIZE == 1000

\* the capacities of the model; the code's default is ROLLING_WINDOW_SIZE
MaxlenValues == {1, 2, 3}

LatencyValues == {5, 9}

\* collections.deque.append that forgets maxlen: nothing is evicted
deque_append_unbounded(deque, maxlen, item) == Append(deque, item)

\* collections.deque(maxlen=maxlen).append(item): a full deque drops its
\* leftmost item
deque_append(deque, maxlen, item) ==
    IF maxlen = 0 THEN <<>>
    ELSE IF Len(deque) >= maxlen
    THEN Append(SubSeq(deque, Len(deque) - maxlen + 2, Len(deque)), item)
    ELSE Append(deque, item)

\* LatencyCollector.__len__
collector_size == Len(latencies)

IdleCollector ==
    /\ collector_maxlen = ROLLING_WINDOW_SIZE
    /\ latencies = <<>>
    /\ mono_times = <<>>
    /\ recorded = <<>>

\* LatencyCollector.__init__(maxlen)
StartCollector ==
    /\ collector_maxlen \in MaxlenValues
    /\ latencies = <<>>
    /\ mono_times = <<>>
    /\ recorded = <<>>

\* LatencyCollector.record(latency_ms)
CollectorRecord(latency_ms) ==
    /\ Len(recorded) < MaxRecorded
    /\ latencies' = deque_append(latencies, collector_maxlen, latency_ms)
    /\ mono_times' = deque_append(mono_times, collector_maxlen, mono_clock)
    /\ recorded' = Append(recorded, <<latency_ms, mono_clock>>)
    /\ UNCHANGED collector_maxlen
    /\ UNCHANGED coreVars
    /\ UNCHANGED supportVars
    /\ UNCHANGED besideCollector

\* ------------------------------------------------------------------------
\* Anti-cheat detectors (src/src/anti_cheat.py)
\*
\* The three detectors share one loop: for each factory group, filter the
\* rows, then cut tumbling windows [t, t + window_td) from the earliest
\* remaining time.  A row of the DataFrame is named by its position.  cod
\* is in units of 1e-5 mg/L for the zero-variance data, so that TINY_EPS =
\* 1e-4 is the number 10.  A mean is kept as sum and count and is compared
\* by cross-multiplication; the data stay clear of the exact thresholds,
\* where the code's floating-point product decides.
\* ------------------------------------------------------------------------
TINY_EPS == 10

COD_DROP_PERCENT == 80

TSS_STABLE_PERCENT == 20

BLACKOUT_PERCENT == 80

DetectorNames == {"zero_variance", "chemical_fingerprint", "guilt_by_disconnection"}

\* window_minutes; the claim's case is a window of one minute or more
WindowLengths == {1, 2}

\* groupby("factory_id") visits the keys in sorted order
FactoryOrder == <<"FACTORY_A", "FACTORY_B">>

\* the readings of one factory in one minute, as (cod, tss) pairs
ZvCells ==
    { <<>>,
      << <<11500000, 50>> >>,
      << <<11500000, 50>>, <<11500000, 50>> >>,
      << <<11500000, 50>>, <<11500004, 50>> >>,
      << <<11500000, 50>>, <<11500020, 50>> >>,
      << <<NULL, 50>>, <<11500000, 50>> >> }

FpCells ==
    { <<>>,
      << <<100, 50>>, <<100, 50>> >>,
      << <<19, 41>>, <<19, 41>>, <<19, 41>> >>,
      << <<19, 39>>, <<19, 39>>, <<19, 39>> >>,
      << <<100, 50>>, <<100, NULL>>, <<100, 50>>, <<100, 50>> >> }

GdCells ==
    { <<>>,
      << <<115, 50>> >>,
      << <<NULL, 50>> >>,
      << <<NULL, 50>>, <<NULL, 50>>, <<NULL, 50>>, <<NULL, 50>>, <<115, 50>> >>,
      << <<NULL, 50>>, <<NULL, 50>>, <<NULL, 50>>, <<115, 50>> >> }

CellsOf(name) ==
    IF name = "zero_variance" THEN ZvCells
    ELSE IF name = "chemical_fingerprint" THEN FpCells
    ELSE GdCells

\* what the second factory reports in minute m, when its file is present
SecondFactoryCell(name, m) ==
    IF m > 1 THEN <<>>
    ELSE IF name = "zero_variance" THEN << <<11500020, 50>> >>
    ELSE IF name = "chemical_fingerprint" THEN << <<19, 41>>, <<19, 41>>, <<19, 41>> >>
    ELSE << <<NULL, 50>> >>

\* a row whose time column does not parse
UnparseableRow(name) ==
    [factory_id |-> "FACTORY_A", time |-> BadTimestamp,
     cod |-> IF name = "zero_variance" THEN 11500000 ELSE 100, tss |-> 50]

tag_rows(factory_id, m, cell) ==
    [i \in 1..Len(cell) |->
        [factory_id |-> factory_id, time |-> m, cod |-> cell[i][1], tss |-> cell[i][2]]]

RECURSIVE rows_from(_, _, _, _)
\* pd.concat(frames).sort_values("time_dt"): the rows in time order
rows_from(name, cells, second, m) ==
    IF m > MaxDetMinute THEN <<>>
    ELSE tag_rows("FACTORY_A", m, cells[m])
         \o (IF second THEN tag_rows("FACTORY_B", m, SecondFactoryCell(name, m)) ELSE <<>>)
         \o rows_from(name, cells, second, m + 1)

\* _load_factories: the time-sorted DataFrame, unparseable times last
load_factories(name, cells, second, unparseable) ==
    rows_from(name, cells, second, 0)
    \o (IF unparseable THEN <<UnparseableRow(name)>> ELSE <<>>)

DataFrames(name) ==
    { load_factories(name, cells, second, unparseable) :
        cells \in [0..MaxDetMinute -> CellsOf(name)],
        second \in BOOLEAN, unparseable \in BOOLEAN }

\* minutes with no row, with a null and a valid reading, and with three
\* valid readings: the shapes that decide where the windows fall
ShapeCells ==
    { <<>>,
      << <<NULL, 50>>, <<115, 50>> >>,
      << <<115, 50>>, <<115, 50>>, <<115, 50>> >> }

\* the DataFrames built from these shapes
ShapeDataFrames(name) ==
    { load_factories(name, cells, second, unparseable) :
        cells \in [0..MaxDetMinute -> ShapeCells],
        second \in BOOLEAN, unparseable \in BOOLEAN }

\* df["time_dt"] of row i
time_dt_of(df, i) == to_datetime_coerce(df[i].time)

\* the keys groupby("factory_id") iterates over
group_keys(df) ==
    SelectSeq(FactoryOrder, LAMBDA f : \E i \in 1..Len(df) : df[i].factory_id = f)

\* the rows of one group
group_rows(df, factory_id) == {i \in 1..Len(df) : df[i].factory_id = factory_id}

\* the detector's filter: dropna(subset=["cod"]), dropna(subset=["cod", "tss"]),
\* dropna(subset=["time_dt"])
clean_rows(name, df, factory_id) ==
    IF name = "zero_variance"
    THEN {i \in group_rows(df, factory_id) : df[i].cod # NULL}
    ELSE IF name = "chemical_fingerprint"
    THEN {i \in group_rows(df, factory_id) : df[i].cod # NULL /\ df[i].tss # NULL}
    ELSE {i \in group_rows(df, factory_id) : time_dt_of(df, i) # NaT}

\* the `continue` before the loop: clean.empty, len(clean) < 6, valid.empty
group_skipped(name, clean) ==
    IF name = "chemical_fingerprint" THEN Cardinality(clean) < 6 ELSE clean = {}

timed(df, clean) == {i \in clean : time_dt_of(df, i) # NaT}

\* clean["time_dt"].min() and .max(); NaT when no time parses
t_min_of(df, clean) ==
    IF timed(df, clean) = {} THEN NaT
    ELSE CHOOSE x \in {time_dt_of(df, i) : i \in timed(df, clean)} :
            \A i \in timed(df, clean) : x <= time_dt_of(df, i)

t_max_of(df, clean) ==
    IF timed(df, clean) = {} THEN NaT
    ELSE CHOOSE x \in {time_dt_of(df, i) : i \in timed(df, clean)} :
            \A i \in timed(df, clean) : x >= time_dt_of(df, i)

\* pd.Timedelta(minutes=window_minutes), in seconds
window_td(window_minutes) == window_minutes * 60

\* the mask that also takes the rows at t_end
window_mask_closed(df, clean, t, t_end) ==
    {i \in clean : time_dt_of(df, i) # NaT /\ time_dt_of(df, i) >= t
                   /\ time_dt_of(df, i) <= t_end}

\* clean[(clean["time_dt"] >= t) & (clean["time_dt"] < t_end)]; a comparison
\* with NaT is False
window_mask(df, clean, t, t_end) ==
    {i \in clean : time_dt_of(df, i) # NaT /\ time_dt_of(df, i) >= t
                   /\ time_dt_of(df, i) < t_end}

\* while t <= t_max
loop_continues(t, t_max) == t # NaT /\ t_max # NaT /\ t <= t_max

\* window["time"].iloc[-1]: the time of the last row of the sorted window
window_end_of(df, window) ==
    CHOOSE x \in {df[i].time : i \in window} : \A i \in window : x >= df[i].time

RECURSIVE sum_cod(_, _)
sum_cod(df, rows) ==
    IF rows = {} THEN 0
    ELSE LET i == CHOOSE j \in rows : TRUE
         IN df[i].cod + sum_cod(df, rows \ {i})

RECURSIVE sum_tss(_, _)
sum_tss(df, rows) ==
    IF rows = {} THEN 0
    ELSE LET i == CHOOSE j \in rows : TRUE
         IN df[i].tss + sum_tss(df, rows \ {i})

\* np.nanmax(cod_vals) and np.nanmin(cod_vals)
cod_max_of(df, window) ==
    CHOOSE x \in {df[i].cod : i \in window} : \A i \in window : x >= df[i].cod

cod_min_of(df, window) ==
    CHOOSE x \in {df[i].cod : i \in window} : \A i \in window : x <= df[i].cod

\* round(x, 4) of a value in units of 1e-5, ties to the even digit; 1e-6,
\* the precision of round(cod_range, 6), is finer than the unit
round4(x) ==
    LET r == x % 10
        base == x - r
    IN IF r < 5 THEN base
       ELSE IF r > 5 THEN base + 10
       ELSE IF (base \div 10) % 2 = 0 THEN base ELSE base + 10

\* the zero-variance test that accepts a window of one sample
zero_variance_flagged_single(df, window) ==
    /\ Cardinality(window) >= 1
    /\ cod_max_of(df, window) - cod_min_of(df, window) < TINY_EPS

\* len(window) >= 2 and cod_range < TINY_EPS
zero_variance_flagged(df, window) ==
    /\ Cardinality(window) >= 2
    /\ cod_max_of(df, window) - cod_min_of(df, window) < TINY_EPS

\* round(sum / n, 2), in hundredths, ties to the even digit
mean_round2(sum, n) ==
    LET q == (sum * 100) \div n
        r == (sum * 100) % n
    IN IF 2 * r < n THEN q
       ELSE IF 2 * r > n THEN q + 1
       ELSE IF q % 2 = 0 THEN q ELSE q + 1

NoPrev == <<>>

\* the previous window's means are kept from one factory to the next
prev_at_group_start_carried(prev) == prev

\* prev_cod = None, prev_tss = None at the start of each factory group
prev_at_group_start(prev) == NoPrev

\* mean_cod <= prev_cod * (1 - cod_drop) and mean_tss >= prev_tss * (1 - tss_stable),
\* the means given as sum and count
dilution_flagged(cod_sum, tss_sum, n, prev) ==
    /\ prev # NoPrev
    /\ cod_sum * prev.n * 100 <= prev.cod_sum * (100 - COD_DROP_PERCENT) * n
    /\ tss_sum * prev.n * 100 >= prev.tss_sum * (100 - TSS_STABLE_PERCENT) * n

\* null_cod_count / total >= blackout_threshold
blackout_flagged(df, window, window_minutes) ==
    /\ Cardinality(window) >= window_minutes
    /\ Cardinality({i \in window : df[i].cod = NULL}) * 100
          >= BLACKOUT_PERCENT * Cardinality(window)

\* the records one pass of the loop body appends
window_records(name, df, factory_id, window, prev, window_minutes) ==
    IF name = "zero_variance"
    THEN IF zero_variance_flagged(df, window)
         THEN << [tamper_type |-> "ZERO_VARIANCE", factory_id |-> factory_id,
                  window_end |-> window_end_of(df, window),
                  cod_max |-> round4(cod_max_of(df, window)),
                  cod_min |-> round4(cod_min_of(df, window)),
                  cod_range |-> cod_max_of(df, window) - cod_min_of(df, window),
                  row_count |-> Cardinality(window)] >>
         ELSE <<>>
    ELSE IF name = "chemical_fingerprint"
    THEN IF /\ Cardinality(window) >= 3
            /\ dilution_flagged(sum_cod(df, window), sum_tss(df, window),
                                Cardinality(window), prev)
         THEN << [tamper_type |-> "DILUTION_TAMPER", factory_id |-> factory_id,
                  window_end |-> window_end_of(df, window),
                  mean_cod |-> mean_round2(sum_cod(df, window), Cardinality(window)),
                  mean_tss |-> mean_round2(sum_tss(df, window), Cardinality(window)),
                  baseline_cod |-> mean_round2(prev.cod_sum, prev.n),
                  baseline_tss |-> mean_round2(prev.tss_sum, prev.n)] >>
         ELSE <<>>
    ELSE IF blackout_flagged(df, window, window_minutes)
         THEN << [tamper_type |-> "BLACKOUT_TAMPER", factory_id |-> factory_id,
                  window_end |-> window_end_of(df, window),
                  total_rows |-> Cardinality(window),
                  blackout_rows |-> Cardinality({i \in window : df[i].cod = NULL})] >>
         ELSE <<>>

\* prev_cod, prev_tss = mean_cod, mean_tss, reached only by a window of
\* three rows or more
next_prev(name, df, window, prev) ==
    IF name = "chemical_fingerprint" /\ Cardinality(window) >= 3
    THEN [cod_sum |-> sum_cod(df, window), tss_sum |-> sum_tss(df, window),
          n |-> Cardinality(window)]
    ELSE prev

IdleDetectors ==
    /\ det_name = "zero_variance"
    /\ det_window_minutes = 1
    /\ det_df = <<>>
    /\ det_pc = "done"
    /\ det_todo = <<>>
    /\ det_factory = NoFactory
    /\ det_t = NaT
    /\ det_prev = NoPrev
    /\ det_records = <<>>
    /\ det_windows = <<>>

\* a detector is called on a loaded DataFrame
StartDetectors ==
    /\ det_name \in DetectorNames
    /\ det_window_minutes \in WindowLengths
    /\ det_df \in DataFrames(det_name)
    /\ det_pc = "group"
    /\ det_todo = group_keys(det_df)
    /\ det_factory = NoFactory
    /\ det_t = NaT
    /\ det_prev = NoPrev
    /\ det_records = <<>>
    /\ det_windows = <<>>

\* a detector is called on a DataFrame of the shapes above
StartDetectorsOnShapes ==
    /\ det_name \in DetectorNames
    /\ det_window_minutes \in WindowLengths
    /\ det_df \in ShapeDataFrames(det_name)
    /\ det_pc = "group"
    /\ det_todo = group_keys(det_df)
    /\ det_factory = NoFactory
    /\ det_t = NaT
    /\ det_prev = NoPrev
    /\ det_records = <<>>
    /\ det_windows = <<>>

\* for factory_id, group in df.groupby("factory_id"): the filter, the
\* `continue` of a group with too few rows, and the loop's initialisation
DetNextGroup ==
    /\ det_pc = "group"
    /\ det_todo # <<>>
    /\ LET factory_id == Head(det_todo)
           clean == clean_rows(det_name, det_df, factory_id)
       IN  /\ det_todo' = Tail(det_todo)
           /\ IF group_skipped(det_name, clean)
              THEN UNCHANGED <<det_pc, det_factory, det_t, det_prev>>
              ELSE /\ det_pc' = "loop"
                   /\ det_factory' = factory_id
                   /\ det_t' = t_min_of(det_df, clean)
                   /\ det_prev' = prev_at_group_start(det_prev)
    /\ UNCHANGED <<det_name, det_window_minutes, det_df, det_records, det_windows>>
    /\ UNCHANGED coreVars
    /\ UNCHANGED supportVars
    /\ UNCHANGED besideDetectors

\* one pass of the body of `while t <= t_max`
DetWindow ==
    /\ det_pc = "loop"
    /\ LET clean == clean_rows(det_name, det_df, det_factory)
           t_end == det_t + window_td(det_window_minutes)
           window == window_mask(det_df, clean, det_t, t_end)
       IN  /\ loop_continues(det_t, t_max_of(det_df, clean))
           /\ det_t' = t_end
           /\ det_records' = det_records \o
                 window_records(det_name, det_df, det_factory, window, det_prev,
                                det_window_minutes)
           /\ det_prev' = next_prev(det_name, det_df, window, det_prev)
           /\ det_windows' = Append(det_windows,
                 [factory_id |-> det_factory, t |-> det_t, rows |-> window])
    /\ UNCHANGED <<det_name, det_window_minutes, det_df, det_pc, det_todo, det_factory>>
    /\ UNCHANGED coreVars
    /\ UNCHANGED supportVars
    /\ UNCHANGED besideDetectors

\* the while condition fails: on to the next group
DetEndGroup ==
    /\ det_pc = "loop"
    /\ ~loop_continues(det_t, t_max_of(det_df, clean_rows(det_name, det_df, det_factory)))
    /\ det_pc' = "group"
    /\ UNCHANGED <<det_name, det_window_minutes, det_df, det_todo, det_factory, det_t,
                   det_prev, det_records, det_windows>>
    /\ UNCHANGED coreVars
    /\ UNCHANGED supportVars
    /\ UNCHANGED besideDetectors

\* the for loop is exhausted: return pd.DataFrame(records)
DetReturn ==
    /\ det_pc = "group"
    /\ det_todo = <<>>
    /\ det_pc' = "done"
    /\ UNCHANGED <<det_name, det_window_minutes, det_df, det_todo, det_factory, det_t,
                   det_prev, det_records, det_windows>>
    /\ UNCHANGED coreVars
    /\ UNCHANGED supportVars
    /\ UNCHANGED besideDetectors

\* ------------------------------------------------------------------------
\* Causal attribution (src/src/attribution.py)
\*
\* A fraction is the pair <<numerator, denominator>>; a rounded fraction is
\* a number of thousandths.  The sum of the fractions does not depend on the
\* order of the sensors, so the maps of the model list the z-scores in
\* non-decreasing order; the descending sort of the output is left out.
\* ------------------------------------------------------------------------
ZValues == {-2, 0, 1}

\* the map {s1: z, ..., sn: z} whose first a sensors score -2, the next b
\* score 0 and the rest 1
z_map(n, a, b) ==
    [sid \in 1..n |-> IF sid <= a THEN -2 ELSE IF sid <= a + b THEN 0 ELSE 1]

\* the non-empty sensor_z_scores maps of the model
SensorMaps ==
    { z_map(c[1], c[2], c[3]) :
        c \in {d \in (1..MaxSensors) \X (0..MaxSensors) \X (0..MaxSensors) :
                  d[2] + d[3] <= d[1]} }

RECURSIVE sum_z_sq(_, _)
\* sum(z_sq.values()) over the sensors 1..n
sum_z_sq(z_scores, n) ==
    IF n = 0 THEN 0 ELSE z_scores[n] * z_scores[n] + sum_z_sq(z_scores, n - 1)

\* _compute_fractions
compute_fractions(z_scores) ==
    LET n == Cardinality(DOMAIN z_scores)
        total == sum_z_sq(z_scores, n)
    IN  IF total = 0
        THEN [sid \in DOMAIN z_scores |-> <<1, n>>]
        ELSE [sid \in DOMAIN z_scores |-> <<z_scores[sid] * z_scores[sid], total>>]

\* round(frac, 3), in thousandths, ties to the even digit
round3(frac) ==
    LET q == (frac[1] * 1000) \div frac[2]
        r == (frac[1] * 1000) % frac[2]
    IN IF 2 * r < frac[2] THEN q
       ELSE IF 2 * r > frac[2] THEN q + 1
       ELSE IF q % 2 = 0 THEN q ELSE q + 1

\* _format_attribution_detail: {sid: round(frac, 3)}
format_attribution_detail(fractions) ==
    [sid \in DOMAIN fractions |-> round3(fractions[sid])]

NoDetail == <<>>

IdleAttribution ==
    /\ sensor_z_scores = <<>>
    /\ attribution_detail = NoDetail

\* a group-anomaly row with a non-empty sensor_z_scores map arrives
StartAttribution ==
    /\ sensor_z_scores \in SensorMaps
    /\ attribution_detail = NoDetail

\* format_alert(row)
FormatAlert ==
    /\ attribution_detail = NoDetail
    /\ sensor_z_scores # <<>>
    /\ attribution_detail' = format_attribution_detail(compute_fractions(sensor_z_scores))
    /\ UNCHANGED sensor_z_scores
    /\ UNCHANGED coreVars
    /\ UNCHANGED supportVars
    /\ UNCHANGED besideAttribution

\* ------------------------------------------------------------------------
\* Pipeline runner process (src/src/run_pipeline.py)
\*
\* run_pipeline calls build_pipeline and pw.run with no try block, and the
\* __main__ block calls run_pipeline with none either: an exception that a
\* stage constructor raises ends the interpreter with a traceback and
\* exit status 1.  build_industrial_stream and build_group_anomalies live in
\* modules that are not part of the sources, so each of them may return or
\* raise.
\* ------------------------------------------------------------------------
Dirs == {"data/cetp", "data/factories", "data/absent"}

NoExit == -1

\* exit status of the interpreter after an uncaught exception
UNCAUGHT_EXCEPTION_STATUS == 1

IdleRunner ==
    /\ existing_dirs = Dirs
    /\ run_raised = "None"
    /\ cetp_dir = "data/cetp"
    /\ factory_dir = "data/factories"
    /\ run_pc = "exited"
    /\ exit_code = 0

\* python src/run_pipeline.py --cetp-dir ... --factory-dir ...
StartRunner ==
    /\ existing_dirs \in SUBSET Dirs
    /\ run_raised = "None"
    /\ cetp_dir \in Dirs
    /\ factory_dir \in Dirs
    /\ run_pc = "load_cetp_stream"
    /\ exit_code = NoExit

\* an exception leaves run_pipeline and the __main__ block
uncaught(exception) ==
    /\ run_pc' = "exited"
    /\ run_raised' = exception
    /\ exit_code' = UNCAUGHT_EXCEPTION_STATUS

\* cetp_stream = load_cetp_stream(cetp_dir): FileNotFoundError when the
\* directory does not exist
LoadCetpStream ==
    /\ run_pc = "load_cetp_stream"
    /\ IF cetp_dir \notin existing_dirs
       THEN uncaught("FileNotFoundError")
       ELSE run_pc' = "build_industrial_stream" /\ UNCHANGED <<exit_code, run_raised>>
    /\ UNCHANGED <<existing_dirs, cetp_dir, factory_dir>>
    /\ UNCHANGED coreVars
    /\ UNCHANGED supportVars
    /\ UNCHANGED besideRunner

\* factory_stream = build_industrial_stream(factory_dir)
BuildIndustrialStream ==
    /\ run_pc = "build_industrial_stream"
    /\ \/ uncaught("Exception")
       \/ run_pc' = "build_group_anomalies" /\ UNCHANGED <<exit_code, run_raised>>
    /\ UNCHANGED <<existing_dirs, cetp_dir, factory_dir>>
    /\ UNCHANGED coreVars
    /\ UNCHANGED supportVars
    /\ UNCHANGED besideRunner

\* group_anomalies = build_group_anomalies(factory_stream)
BuildGroupAnomalies ==
    /\ run_pc = "build_group_anomalies"
    /\ \/ uncaught("Exception")
       \/ run_pc' = "build_eri_stream" /\ UNCHANGED <<exit_code, run_raised>>
    /\ UNCHANGED <<existing_dirs, cetp_dir, factory_dir>>
    /\ UNCHANGED coreVars
    /\ UNCHANGED supportVars
    /\ UNCHANGED besideRunner

\* eri_stream = build_eri_stream(group_anomalies): its last statement calls
\* logger.debug, and eri.py binds the name log, not logger: NameError
BuildEriStream ==
    /\ run_pc = "build_eri_stream"
    /\ uncaught("NameError")
    /\ UNCHANGED <<existing_dirs, cetp_dir, factory_dir>>
    /\ UNCHANGED coreVars
    /\ UNCHANGED supportVars
    /\ UNCHANGED besideRunner

\* ------------------------------------------------------------------------
\* The counter store under threads (src/src/persistence.py)
\*
\* update reads the counter, computes, and writes it back; the class holds
\* no lock, so another thread may run between the read and the write.
\* ------------------------------------------------------------------------
Threads == 1..MaxThreads

SharedSensor == "S1"

IdleThreads ==
    /\ thread_pc = [th \in Threads |-> "done"]
    /\ thread_current = [th \in Threads |-> 0]
    /\ thread_anomaly = [th \in Threads |-> FALSE]
    /\ start_count = 0

\* each thread is about to call update(SharedSensor, is_anomaly)
StartThreads ==
    /\ thread_pc = [th \in Threads |-> "call"]
    /\ thread_current = [th \in Threads |-> 0]
    /\ thread_anomaly \in [Threads -> BOOLEAN]
    /\ start_count \in 0..MaxStartCount
    /\ counts = IF start_count = 0 THEN <<>> ELSE dict_set(<<>>, SharedSensor, start_count)
    /\ scored = <<>>
    /\ confirmed = <<>>
    /\ reset_log = <<>>

\* current = self._counts.get(sensor_id, 0), and the debug line of a reset
ThreadRead(th) ==
    /\ thread_pc[th] = "call"
    /\ thread_current' = [thread_current EXCEPT ![th] = store_get(counts, SharedSensor)]
    /\ thread_pc' = [thread_pc EXCEPT ![th] = "write"]
    /\ reset_log' = IF update_logs_reset(store_get(counts, SharedSensor), thread_anomaly[th])
                    THEN Append(reset_log, [sensor_id |-> SharedSensor,
                                            was |-> store_get(counts, SharedSensor)])
                    ELSE reset_log
    /\ UNCHANGED <<counts, scored, confirmed, thread_anomaly, start_count>>
    /\ UNCHANGED <<alertVars, backtrackVars, sinkVars, cetp_stream>>
    /\ UNCHANGED supportVars
    /\ UNCHANGED besideThreads

\* self._counts[sensor_id] = new_count; return new_count
ThreadWrite(th) ==
    /\ thread_pc[th] = "write"
    /\ counts' = dict_set(counts, SharedSensor,
                          update_new_count(thread_current[th], thread_anomaly[th]))
    /\ thread_pc' = [thread_pc EXCEPT ![th] = "done"]
    /\ UNCHANGED <<scored, confirmed, reset_log, thread_current, thread_anomaly, start_count>>
    /\ UNCHANGED <<alertVars, backtrackVars, sinkVars, cetp_stream>>
    /\ UNCHANGED supportVars
    /\ UNCHANGED besideThreads

\* _SensorStateStore.get(sensor_id)
GetCounter(sensor_id) ==
    /\ last_get' = store_get(counts, sensor_id)
    /\ UNCHANGED coreVars
    /\ UNCHANGED supportVars
    /\ UNCHANGED <<collectorVars, detectorVars, attributionVars, runnerVars, threadVars>>

\* every component beside the stream at rest
IdleAux ==
    IdleCollector /\ IdleDetectors /\ IdleAttribution /\ IdleRunner /\ IdleThreads
    /\ last_get = 0

\* every stage outside the core at rest
IdleSupport == IdleIngest /\ IdleEri /\ IdleTripwire /\ IdleSnapshot /\ IdleReporter

\* the gate, the router, the backtrack, the sinks and the wiring at rest
IdleCore ==
    StartPersistence /\ IdleAlerts /\ IdleBacktrack /\ StartSinks /\ cetp_stream = <<>>

\* ------------------------------------------------------------------------
\* Specifications
\* ------------------------------------------------------------------------
InitPersistence ==
    StartPersistence /\ IdleAlerts /\ IdleBacktrack /\ StartSinks /\ cetp_stream = <<>>
    /\ IdleSupport
    /\ IdleAux

NextPersistence ==
    \E sensor_id \in SensorIds, is_anomaly \in BOOLEAN :
        ProcessScored(sensor_id, is_anomaly)

SpecPersistence == InitPersistence /\ [][NextPersistence]_vars

InitAlerts ==
    StartAlerts /\ StartPersistence /\ IdleBacktrack /\ StartSinks /\ cetp_stream = <<>>
    /\ IdleSupport
    /\ IdleAux

NextAlerts == \E row \in EriRows : AlertRow(row)

SpecAlerts == InitAlerts /\ [][NextAlerts]_vars

InitBacktrack ==
    StartBacktrack /\ StartPersistence /\ IdleAlerts /\ StartSinks /\ cetp_stream = <<>>
    /\ IdleSupport
    /\ IdleAux

NextBacktrack == \E cetp_time \in CetpTimes : AttributeEvent(cetp_time)

SpecBacktrack == InitBacktrack /\ [][NextBacktrack]_vars

InitSinks ==
    StartSinks /\ StartPersistence /\ IdleAlerts /\ IdleBacktrack /\ cetp_stream = <<>>
    /\ IdleSupport
    /\ IdleAux

NextSinks ==
    \/ \E key \in RowKeys, row \in EvidenceRows, is_addition \in BOOLEAN :
            EvidenceCallback(key, row, is_addition)
    \/ \E default_type \in TamperTypes, row \in TamperRows, is_addition \in BOOLEAN :
            TamperCallback(default_type, row, is_addition)
    \/ \E records \in DetectorOutputs : RunAnticheat(records)

SpecSinks == InitSinks /\ [][NextSinks]_vars

InitPipeline ==
    StartSinks /\ StartPersistence /\ IdleAlerts /\ IdleBacktrack /\ cetp_stream = <<>>
    /\ IdleSupport
    /\ IdleAux

NextPipeline ==
    \/ \E row \in CetpRows : CetpRow(row)
    \/ \E row \in PipelineEriRows : PipelineEriRow(row)

SpecPipeline == InitPipeline /\ [][NextPipeline]_vars

InitIngest ==
    IdleCore /\ IdleIngest /\ IdleEri /\ IdleTripwire /\ IdleSnapshot /\ IdleReporter
    /\ IdleAux

NextIngest == \E row \in IngestRows : IngestFactoryRow(row)

SpecIngest == InitIngest /\ [][NextIngest]_vars

InitEri ==
    IdleCore /\ IdleIngest /\ StartEri /\ IdleTripwire /\ IdleSnapshot /\ IdleReporter
    /\ IdleAux

NextEri == \E eri_value \in EriValues : ClassifyEri(eri_value)

SpecEri == InitEri /\ [][NextEri]_vars

InitTripwire ==
    IdleCore /\ IdleIngest /\ IdleEri /\ IdleTripwire /\ IdleSnapshot /\ IdleReporter
    /\ IdleAux

NextTripwire == \E row \in TripwireRows : TripwireRow(row)

SpecTripwire == InitTripwire /\ [][NextTripwire]_vars

InitSnapshot ==
    IdleCore /\ IdleIngest /\ IdleEri /\ IdleTripwire /\ IdleSnapshot /\ IdleReporter
    /\ IdleAux

NextSnapshot ==
    \/ \E metrics_record \in MetricsRecords : BeginWrite(metrics_record)
    \/ DumpOk
    \/ DumpFails
    \/ ReplaceOk
    \/ ReplaceFails

SpecSnapshot == InitSnapshot /\ [][NextSnapshot]_vars

InitReporter ==
    IdleCore /\ IdleIngest /\ IdleEri /\ IdleTripwire /\ IdleSnapshot /\ StartReporter
    /\ IdleAux

NextReporter ==
    \/ Tick
    \/ RecordLatency
    \/ MaybeReport

SpecReporter == InitReporter /\ [][NextReporter]_vars

InitCollector ==
    IdleCore /\ IdleIngest /\ IdleEri /\ IdleTripwire /\ IdleSnapshot /\ IdleReporter
    /\ StartCollector /\ IdleDetectors /\ IdleAttribution /\ IdleRunner /\ IdleThreads
    /\ last_get = 0

NextCollector ==
    \/ Tick
    \/ \E latency_ms \in LatencyValues : CollectorRecord(latency_ms)

SpecCollector == InitCollector /\ [][NextCollector]_vars

InitDetectors ==
    IdleCore /\ IdleSupport /\ IdleCollector /\ StartDetectors
    /\ IdleAttribution /\ IdleRunner /\ IdleThreads /\ last_get = 0

NextDetectors ==
    \/ DetNextGroup
    \/ DetWindow
    \/ DetEndGroup
    \/ DetReturn

SpecDetectors == InitDetectors /\ [][NextDetectors]_vars

\* detect_zero_variance alone
InitZeroVariance == InitDetectors /\ det_name = "zero_variance"

SpecZeroVariance == InitZeroVariance /\ [][NextDetectors]_vars

\* detect_chemical_fingerprint alone
InitFingerprint == InitDetectors /\ det_name = "chemical_fingerprint"

SpecFingerprint == InitFingerprint /\ [][NextDetectors]_vars

InitDetectorsLive ==
    IdleCore /\ IdleSupport /\ IdleCollector /\ StartDetectorsOnShapes
    /\ IdleAttribution /\ IdleRunner /\ IdleThreads /\ last_get = 0

\* the interpreter keeps executing the detector until it returns
SpecDetectorsLive ==
    InitDetectorsLive /\ [][NextDetectors]_vars /\ WF_vars(NextDetectors)

InitAttribution ==
    IdleCore /\ IdleSupport /\ IdleCollector /\ IdleDetectors
    /\ StartAttribution /\ IdleRunner /\ IdleThreads /\ last_get = 0

NextAttribution == FormatAlert

SpecAttribution == InitAttribution /\ [][NextAttribution]_vars

InitRunner ==
    IdleCore /\ IdleSupport /\ IdleCollector /\ IdleDetectors
    /\ IdleAttribution /\ StartRunner /\ IdleThreads /\ last_get = 0

NextRunner ==
    \/ LoadCetpStream
    \/ BuildIndustrialStream
    \/ BuildGroupAnomalies
    \/ BuildEriStream

SpecRunner == InitRunner /\ [][NextRunner]_vars

InitThreads ==
    StartThreads /\ IdleAlerts /\ IdleBacktrack /\ StartSinks /\ cetp_stream = <<>>
    /\ IdleSupport
    /\ IdleCollector /\ IdleDetectors /\ IdleAttribution /\ IdleRunner /\ last_get = 0

NextThreads ==
    \E th \in Threads : ThreadRead(th) \/ ThreadWrite(th)

SpecThreads == InitThreads /\ [][NextThreads]_vars

\* the gate's store, read through get between the updates
NextStore ==
    \/ \E sensor_id \in SensorIds, is_anomaly \in BOOLEAN :
          ProcessScored(sensor_id, is_anomaly)
    \/ \E sensor_id \in SensorIds : GetCounter(sensor_id)

SpecStore == InitPersistence /\ [][NextStore]_vars

\* ------------------------------------------------------------------------
\* Persistence gate: properties
\* ------------------------------------------------------------------------

\* positions of the rows of sensor_id among the first i rows of scored
RowsOf(sensor_id, i) == {j \in 1..i : scored[j].sensor_id = sensor_id}

\* row i and the K-1 rows of the same sensor immediately before it exist and
\* are all anomalous
LastKAnomalous(i) ==
    LET same == RowsOf(scored[i].sensor_id, i)
    IN /\ Cardinality(same) >= PERSISTENCE_COUNT
       /\ \A j \in same :
            Cardinality({m \in same : m >= j}) <= PERSISTENCE_COUNT => scored[j].is_anomaly

\* length of the run of anomalous rows that ends the rows of sensor_id
Streak(sensor_id) ==
    LET same == RowsOf(sensor_id, Len(scored))
        normal == {j \in same : ~scored[j].is_anomaly}
    IN Cardinality({j \in same : \A m \in normal : m < j})

ConfirmedTimestamps == {confirmed[j].timestamp : j \in 1..Len(confirmed)}

S4Flags == <<TRUE, TRUE, FALSE, TRUE, TRUE, TRUE, TRUE>>

IsS4Run ==
    /\ Len(scored) = Len(S4Flags)
    /\ \A i \in 1..Len(scored) :
         scored[i].sensor_id = "S1" /\ scored[i].is_anomaly = S4Flags[i]

\* C1: a scored row is forwarded to confirmed_anomalies iff it and the K-1
\* rows of the same sensor immediately before it were all anomalous
\* (K = PERSISTENCE_COUNT); every forwarded row carries a count >= K; rows are
\* forwarded in arrival order; and the flags [T,T,F,T,T,T,T] of one sensor
\* forward exactly rows 6 and 7.
C1_ConfirmedIffKConsecutive ==
    /\ \A i \in 1..Len(scored) : (i \in ConfirmedTimestamps) <=> LastKAnomalous(i)
    /\ \A j \in 1..Len(confirmed) :
         /\ confirmed[j].consecutive_count >= PERSISTENCE_COUNT
         /\ confirmed[j].sensor_id = scored[confirmed[j].timestamp].sensor_id
         /\ \A m \in 1..Len(confirmed) :
              m < j => confirmed[m].timestamp < confirmed[j].timestamp
    /\ IsS4Run => ConfirmedTimestamps = {6, 7}

C1_Witness ==
    /\ IsS4Run
    /\ Len(confirmed) = 2
    /\ confirmed[1].consecutive_count = 3
    /\ confirmed[2].consecutive_count = 4

\* C9 as stated: every persistence counter lies in [0, PERSISTENCE_COUNT].
C9_CounterWithinK ==
    \A s \in DOMAIN counts : counts[s] \in 0..PERSISTENCE_COUNT

\* C9 amended: every persistence counter is a non-negative integer equal to
\* the length of the sensor's current run of consecutive anomalous readings;
\* it is not capped at PERSISTENCE_COUNT.
C9_CounterIsStreak ==
    \A s \in SensorIds :
        /\ store_get(counts, s) \in Nat
        /\ store_get(counts, s) = Streak(s)

C9_Witness ==
    \E s \in DOMAIN counts : counts[s] = PERSISTENCE_COUNT + 1 /\ Streak(s) = counts[s]

\* C10: no counter is ever negative, and an update appends a reset event to
\* the log, with the counter going to 0, iff the reading is normal and the
\* counter before the update was > 0; a normal reading at counter 0 and any
\* anomalous reading log nothing.
C10_ResetIffNormalAfterStreak ==
    /\ [](\A s \in DOMAIN counts : counts[s] >= 0)
    /\ [][ Len(scored') = Len(scored) + 1 =>
             LET row    == scored'[Len(scored')]
                 before == store_get(counts, row.sensor_id)
                 logged == reset_log' # reset_log
             IN /\ logged <=> ((~row.is_anomaly) /\ before > 0)
                /\ logged => /\ reset_log' = Append(reset_log,
                                   [sensor_id |-> row.sensor_id, was |-> before])
                             /\ counts'[row.sensor_id] = 0
                /\ (~row.is_anomaly) => counts'[row.sensor_id] = 0
                /\ row.is_anomaly => counts'[row.sensor_id] = before + 1
         ]_vars

\* a reset was logged, and a later normal reading at counter 0 logged nothing
C10_Witness ==
    /\ Len(reset_log) = 1
    /\ Len(scored) >= 4
    /\ \E i \in 2..(Len(scored) - 1) :
         /\ \A j \in 1..Len(scored) : scored[j].sensor_id = "S1"
         /\ scored[i - 1].is_anomaly
         /\ ~scored[i].is_anomaly
         /\ ~scored[i + 1].is_anomaly

\* ------------------------------------------------------------------------
\* Alert router: properties
\* ------------------------------------------------------------------------

\* any two emitted alerts of one point with parseable timestamps are at least
\* the cooldown apart, later-emitted minus earlier-emitted
EmittedPairsSpaced ==
    \A i, j \in 1..Len(emitted) :
        (/\ i < j
         /\ emitted[i].discharge_point_id = emitted[j].discharge_point_id
         /\ ~strptime_fails(emitted[i].timestamp)
         /\ ~strptime_fails(emitted[j].timestamp))
        => strptime(emitted[j].timestamp) - strptime(emitted[i].timestamp) >= cfg_cooldown

\* C2 as stated: for every configuration, two alerts emitted for the same
\* discharge point with parseable timestamps differ by at least
\* ALERT_COOLDOWN_SECONDS.
C2_CooldownSpacing == EmittedPairsSpaced

\* C2 amended: when ALERT_COOLDOWN_SECONDS > 0, two alerts emitted for the
\* same discharge point with parseable timestamps differ by at least
\* ALERT_COOLDOWN_SECONDS (with 0 the gate is off and an out-of-order row
\* gives a negative difference).
C2_CooldownSpacingWhenEnabled == cfg_cooldown > 0 => EmittedPairsSpaced

C2_Witness ==
    /\ cfg_cooldown = 60
    /\ Len(emitted) = 2
    /\ \A i \in 1..2 : emitted[i].discharge_point_id = "P1"
    /\ emitted[1].timestamp = 0
    /\ emitted[2].timestamp = 1
    /\ last_alert = ("P1" :> 60)

\* the row's parsed timestamp is less than the cooldown after the stored
\* last-emitted time of its discharge point
WithinCooldown(row) ==
    /\ ~strptime_fails(row.timestamp)
    /\ row.discharge_point_id \in DOMAIN last_alert
    /\ strptime(row.timestamp) - last_alert[row.discharge_point_id] < cfg_cooldown

\* what one step of the router does to a band-qualifying row, given whether
\* the rule "suppressed exactly when within the cooldown" applies
CooldownStep(rule_applies) ==
    (cur'.status \in {"suppressed", "emitted"}) =>
        LET row == cur'.row
        IN /\ rule_applies => ((cur'.status = "suppressed") <=> WithinCooldown(row))
           /\ (~rule_applies) => cur'.status = "emitted"
           /\ cur'.status = "suppressed" => (last_alert' = last_alert /\ emitted' = emitted)
           /\ cur'.status = "emitted" =>
                /\ emitted' = Append(emitted, [discharge_point_id |-> row.discharge_point_id,
                                               timestamp |-> row.timestamp])
                /\ last_alert' = IF strptime_fails(row.timestamp) THEN last_alert
                                 ELSE dict_set(last_alert, row.discharge_point_id,
                                               strptime(row.timestamp))
           /\ last_alert' # last_alert => cur'.status = "emitted"
           \* S6: cooldown 60 s, rows 12:00, 12:00, 12:01 of one point
           /\ (cfg_cooldown = 60 /\ row.discharge_point_id = "P1") =>
                /\ (last_alert = <<>> /\ row.timestamp = 0) => cur'.status = "emitted"
                /\ (last_alert = ("P1" :> 0) /\ row.timestamp = 0) => cur'.status = "suppressed"
                /\ (last_alert = ("P1" :> 0) /\ row.timestamp = 1) => cur'.status = "emitted"

\* C3 as stated: for every configuration a band-qualifying row is suppressed
\* exactly when its parsed timestamp is less than ALERT_COOLDOWN_SECONDS after
\* the stored last-emitted time of its point; the time is recorded only when a
\* row passes; a suppressed row leaves the store unchanged; S6 gives pass,
\* suppress, pass.
C3_SuppressedIffWithinCooldown == [][CooldownStep(TRUE)]_vars

\* C3 amended: the same, for ALERT_COOLDOWN_SECONDS > 0; with
\* ALERT_COOLDOWN_SECONDS = 0 no row is suppressed, also one whose timestamp
\* is earlier than the stored last-emitted time.
C3_SuppressedIffWithinCooldownWhenEnabled == [][CooldownStep(cfg_cooldown > 0)]_vars

\* S6 after its second row: 12:00 passed and was recorded, 12:00 again was
\* suppressed
C3_Witness ==
    /\ cfg_cooldown = 60
    /\ emitted = <<[discharge_point_id |-> "P1", timestamp |-> 0]>>
    /\ last_alert = ("P1" :> 0)
    /\ cur.status = "suppressed"
    /\ cur.row.discharge_point_id = "P1"
    /\ cur.row.timestamp = 0

\* ------------------------------------------------------------------------
\* Temporal backtrack: properties
\* ------------------------------------------------------------------------

\* the positions of the factory-index rows whose time lies in the inclusive
\* window around the shock time minus the pipe travel time
BacktrackWindow ==
    LET centre == shock * 60 - PIPE_TRAVEL_MINUTES * 60
    IN {i \in 1..Len(factory_index) :
          /\ factory_index[i].time_dt # NaT
          /\ factory_index[i].time_dt >= centre - ASOF_TOLERANCE_SECONDS
          /\ factory_index[i].time_dt <= centre + ASOF_TOLERANCE_SECONDS}

Attributed == evidence.status = "ok" /\ evidence.attributed_factory # NoFactory

FactoryRank == [f \in FactoryIds |-> IF f = "FACTORY_A" THEN 1 ELSE 2]

\* C5: among the window rows that share the maximum cod the selected row has
\* the latest timestamp, and among those of equal timestamp the
\* lexicographically smallest factory_id.
C5_TieBreakLatestThenSmallestId ==
    Attributed =>
        \A i \in BacktrackWindow :
            factory_index[i].cod = factory_index[matched].cod =>
                \/ factory_index[i].time_dt < factory_index[matched].time_dt
                \/ /\ factory_index[i].time_dt = factory_index[matched].time_dt
                   /\ FactoryRank[factory_index[matched].factory_id]
                        <= FactoryRank[factory_index[i].factory_id]

IndexHasNoNullCod == \A i \in 1..Len(factory_index) : factory_index[i].cod # NULL

\* C15: the factory index is strictly sorted by time (each row's time is
\* greater than the time of the row before it) and has no null-cod row.
C15_IndexStrictlySorted ==
    /\ \A i \in 1..Len(factory_index) - 1 :
            /\ factory_index[i].time_dt # NaT
            /\ factory_index[i + 1].time_dt # NaT
            /\ factory_index[i].time_dt < factory_index[i + 1].time_dt
    /\ IndexHasNoNullCod

\* C15 as the code has it: the rows whose time parses are in non-decreasing
\* order of time (rows may share a time), the rows whose time does not parse
\* come after them, and no row has a null cod.
C15_IndexSortedNoNullCod ==
    /\ \A i \in 1..Len(factory_index) - 1 :
            \/ factory_index[i + 1].time_dt = NaT
            \/ /\ factory_index[i].time_dt # NaT
               /\ factory_index[i].time_dt <= factory_index[i + 1].time_dt
    /\ IndexHasNoNullCod

\* an index of two rows of different factories that share a time
C15_Witness ==
    /\ Len(factory_index) = 2
    /\ factory_index[1].time_dt # NaT
    /\ factory_index[1].time_dt = factory_index[2].time_dt
    /\ factory_index[1].factory_id # factory_index[2].factory_id

\* ------------------------------------------------------------------------
\* Sinks and pipeline: properties
\* ------------------------------------------------------------------------

\* the sequence a is a prefix of the sequence b
IsPrefix(a, b) == Len(a) <= Len(b) /\ \A i \in 1..Len(a) : a[i] = b[i]

\* C6: for the additions and retractions delivered for one evidence row
\* (also a retraction followed by a corrected re-addition) at most one line
\* is appended to the evidence log.
C6_OneLinePerRow == \A k \in RowKeys : lines_written[k] <= 1

\* C7: after any operation (a sink callback or a complete run of
\* run_anticheat) the previous content of the evidence log and of the tamper
\* log is an unchanged prefix of the new content.
C7_LogsAppendOnly ==
    [][IsPrefix(evidence_log, evidence_log') /\ IsPrefix(tamper_log, tamper_log')]_vars

\* C8: once the graph has processed its input, every CETP reading with
\* cod >= COD_THRESHOLD has exactly one evidence-log line carrying its time
\* and its cod, and a reading below the threshold has none.
C8_ShockHasEvidenceLine ==
    \A i \in 1..Len(cetp_stream) :
        LET reading == cetp_stream[i]
            lines == {n \in 1..Len(evidence_log) :
                        /\ evidence_log[n].cetp_event_time = reading.time
                        /\ evidence_log[n].cetp_cod = reading.cetp_inlet_cod}
        IN IF reading.cetp_inlet_cod >= COD_THRESHOLD
           THEN Cardinality(lines) = 1
           ELSE lines = {}

\* ------------------------------------------------------------------------
\* Alert router: unparseable timestamps, band filter, alert level
\* ------------------------------------------------------------------------

\* C11: a row whose timestamp does not parse is never suppressed by the
\* cooldown gate (the router has no exception outcome for it) and the stored
\* last-alert times are the same after the row as before it.
C11_BadTimestampPassesAndKeepsStore ==
    [][cur'.row.timestamp = BadTimestamp =>
          /\ cur'.status \in {"dropped", "emitted"}
          /\ last_alert' = last_alert]_vars

\* an unparseable row of a point with a running cooldown has been emitted
C11_Witness ==
    /\ cfg_cooldown > 0
    /\ cur.row.timestamp = BadTimestamp
    /\ cur.status = "emitted"
    /\ cur.row.discharge_point_id \in DOMAIN last_alert
    /\ Len(emitted) = 2

\* the band of the row is unknown or ranks below ALERT_MIN_RISK_BAND
BelowMinBand(row) ==
    \/ row.risk_band \notin DOMAIN RISK_BAND_ORDER
    \/ RISK_BAND_ORDER[row.risk_band] < RISK_BAND_ORDER[cfg_min_band]

\* C12: a row below the minimum band (or of unknown band) is dropped: it is
\* not emitted and the cooldown store is the same after it as before it.
C12_BandFilterBeforeCooldown ==
    [][BelowMinBand(cur'.row) =>
          /\ cur'.status = "dropped"
          /\ emitted' = emitted
          /\ last_alert' = last_alert]_vars

\* a parseable row below the minimum band was dropped with a cooldown
\* configured, and the store is still empty
C12_Witness ==
    /\ cfg_cooldown > 0
    /\ cur.status = "dropped"
    /\ cur.row.timestamp # BadTimestamp
    /\ cur.row.risk_band \in {"LOW", "UNKNOWN"}
    /\ last_alert = <<>>
    /\ emitted = <<>>

\* C13: the row build_alert_stream emits has alert_level INFO, WARNING or
\* CRITICAL, the level of its band, for every configured minimum band.
C13_EmittedLevelIsNamed ==
    cur.status = "emitted" =>
        /\ cur.alert.alert_level \in {"INFO", "WARNING", "CRITICAL"}
        /\ cur.alert.risk_band \in DOMAIN ALERT_LEVEL
        /\ cur.alert.alert_level = ALERT_LEVEL[cur.alert.risk_band]

\* ------------------------------------------------------------------------
\* Validator and ingest, ERI classification, tripwire: properties
\* ------------------------------------------------------------------------

\* the record the validator is given for a factory row: the sensor column is
\* factory_id, the value column is cod
reading_of(row) == [sensor_id |-> row.factory_id, timestamp |-> row.time, value |-> row.cod]

\* C16: load_factory_streams has one output stream and no quarantine
\* stream, so a record lands in exactly one of valid and quarantine, and in
\* valid iff validate_record accepts it, only if every row of the returned
\* stream is a record validate_record accepts.
C16_ValidStreamHoldsAcceptedOnly ==
    \A i \in 1..Len(factory_stream) : validate_record(reading_of(factory_stream[i])).valid

\* the threshold of the band in eri_thresholds
Upper(band) ==
    LET i == CHOOSE k \in 1..Len(eri_thresholds) : eri_thresholds[k].band = band
    IN eri_thresholds[i].upper_bound

\* C17: for ascending thresholds classify_eri is monotone (a lower or equal
\* eri never gets a higher band), each threshold is an exclusive upper bound
\* (a value equal to it is in the next band) and every value >= high is
\* CRITICAL.
C17_ClassifyMonotoneExclusive ==
    /\ \A a, b \in classified :
            a.eri <= b.eri => RISK_BAND_ORDER[a.band] <= RISK_BAND_ORDER[b.band]
    /\ \A a \in classified :
            /\ a.band = "LOW" <=> a.eri < Upper("LOW")
            /\ a.band = "MEDIUM" <=> (Upper("LOW") <= a.eri /\ a.eri < Upper("MEDIUM"))
            /\ a.band = "HIGH" <=> (Upper("MEDIUM") <= a.eri /\ a.eri < Upper("HIGH"))
            /\ a.band = "CRITICAL" <=> a.eri >= Upper("HIGH")

\* all four bands returned, with the values equal to each threshold in the
\* next higher band
C17_Witness ==
    /\ [eri |-> Upper("LOW") - 1, band |-> "LOW"] \in classified
    /\ [eri |-> Upper("LOW"), band |-> "MEDIUM"] \in classified
    /\ [eri |-> Upper("MEDIUM"), band |-> "HIGH"] \in classified
    /\ [eri |-> Upper("HIGH"), band |-> "CRITICAL"] \in classified
    /\ Upper("LOW") + 1 < Upper("MEDIUM")

\* the reading is at or above COD_THRESHOLD
IsShock(row) == row.cetp_inlet_cod >= COD_THRESHOLD

\* C18: shock_events holds, in input order, exactly the readings with
\* cod >= COD_THRESHOLD, each with its time, its cod and
\* breach_mag = cod - COD_BASELINE; with every reading below the threshold
\* nothing is emitted and the evidence log is empty.
C18_TripwireEmitsIffAtOrAboveThreshold ==
    LET shocks == SelectSeq(cetp_input, IsShock)
    IN /\ Len(shock_events) = Len(shocks)
       /\ \A i \in 1..Len(shocks) :
            /\ shock_events[i].time = shocks[i].time
            /\ shock_events[i].cod_value = shocks[i].cetp_inlet_cod
            /\ shock_events[i].breach_mag = shocks[i].cetp_inlet_cod - COD_BASELINE
       /\ (\A i \in 1..Len(cetp_input) : ~IsShock(cetp_input[i])) =>
            (shock_events = <<>> /\ evidence_log = <<>>)

\* a reading below the threshold, one equal to it and one above it, in that
\* order: the last two emitted in order
C18_Witness ==
    /\ Len(cetp_input) = 3
    /\ cetp_input[1].cetp_inlet_cod < COD_THRESHOLD
    /\ cetp_input[2].cetp_inlet_cod = COD_THRESHOLD
    /\ cetp_input[3].cetp_inlet_cod > COD_THRESHOLD
    /\ cetp_input[2].time > cetp_input[3].time
    /\ Len(shock_events) = 2
    /\ shock_events[1].cod_value = COD_THRESHOLD
    /\ shock_events[1].breach_mag = 57000

\* ------------------------------------------------------------------------
\* Metrics snapshot and reporter: properties
\* ------------------------------------------------------------------------

\* C19: the snapshot path is absent or holds the complete JSON of a record
\* given to the writer; and once a call has ended, also after a failed write
\* or rename, no temp file is left and no exception has propagated.
C19_SnapshotAtomicAndFailuresContained ==
    /\ snapshot_file.exists =>
            /\ snapshot_file.complete
            /\ \E i \in 1..Len(written) : written[i] = snapshot_file.record
    /\ write_pc = "idle" => temp_files = 0
    /\ ~write_raised

\* any two summaries are interval_seconds apart and the first is no earlier
\* than interval_seconds after construction
ReportsSpaced ==
    /\ \A i, j \in 1..Len(reports) :
            i < j => reports[j] - reports[i] >= interval_seconds
    /\ \A i \in 1..Len(reports) : reports[i] - constructed_mono >= interval_seconds

\* C20: any two emitted summaries are at least interval_seconds apart on
\* the monotonic clock, the first is no earlier than interval_seconds after
\* construction, and while the collector is empty a call emits nothing and
\* returns False.
C20_AtMostOneReportPerInterval ==
    /\ []ReportsSpaced
    /\ [][collector_len = 0 =>
            /\ reports' = reports
            /\ last_result' # last_result => last_result' = "False"]_vars

\* two summaries exactly interval_seconds apart, the first exactly
\* interval_seconds after construction
C20_Witness ==
    /\ interval_seconds = 2
    /\ constructed_mono = 1
    /\ Len(reports) = 2
    /\ reports[1] = constructed_mono + interval_seconds
    /\ reports[2] = reports[1] + interval_seconds
    /\ last_result = "True"

\* ------------------------------------------------------------------------
\* Latency rolling window: properties
\* ------------------------------------------------------------------------
Min(a, b) == IF a <= b THEN a ELSE b

\* C21: the collector never holds more than its capacity; after n records it
\* holds the most recent min(n, capacity) samples in arrival order, the
\* oldest evicted first; the latency buffer and the arrival-time buffer
\* always have the same length.
C21_WindowHoldsMostRecent ==
    LET n == Len(recorded)
        k == Min(n, collector_maxlen)
    IN  /\ collector_size <= collector_maxlen
        /\ Len(latencies) = Len(mono_times)
        /\ collector_size = k
        /\ \A i \in 1..k :
              /\ latencies[i] = recorded[n - k + i][1]
              /\ mono_times[i] = recorded[n - k + i][2]

\* a sample has been evicted from a window of capacity 2 or more
C21_Witness ==
    /\ collector_maxlen >= 2
    /\ Len(recorded) > collector_maxlen
    /\ recorded[1][1] # latencies[1]
    /\ collector_size = collector_maxlen

\* ------------------------------------------------------------------------
\* Anti-cheat detectors: properties
\* ------------------------------------------------------------------------
DetFactories == {FactoryOrder[i] : i \in 1..Len(FactoryOrder)}

\* the rows of a factory that the running detector considers
Considered(f) ==
    {i \in 1..Len(det_df) :
        /\ det_df[i].factory_id = f
        /\ IF det_name = "zero_variance" THEN det_df[i].cod # NULL
           ELSE IF det_name = "chemical_fingerprint"
           THEN det_df[i].cod # NULL /\ det_df[i].tss # NULL
           ELSE det_df[i].time # BadTimestamp}

\* the considered rows whose time parses
ConsideredTimed(f) == {i \in Considered(f) : det_df[i].time # BadTimestamp}

\* the earliest considered minute of a factory
FirstMinute(f) ==
    CHOOSE m \in {det_df[i].time : i \in ConsideredTimed(f)} :
        \A i \in ConsideredTimed(f) : m <= det_df[i].time

\* the k-th tumbling window of a factory: the rows in
\* [first + k*w, first + (k+1)*w)
TumblingWindow(f, k) ==
    {i \in ConsideredTimed(f) :
        /\ det_df[i].time >= FirstMinute(f) + k * det_window_minutes
        /\ det_df[i].time < FirstMinute(f) + (k + 1) * det_window_minutes}

WindowNumbers == 0..MaxDetMinute

\* the records of a tamper type that belong to window k of factory f
RecordsOfWindow(tamper_type, f, k) ==
    {j \in 1..Len(det_records) :
        /\ det_records[j].tamper_type = tamper_type
        /\ det_records[j].factory_id = f
        /\ det_records[j].window_end \in {det_df[i].time : i \in TumblingWindow(f, k)}}

\* every record belongs to a window of its factory
EveryRecordHasWindow(tamper_type) ==
    \A j \in 1..Len(det_records) :
        \E f \in DetFactories, k \in WindowNumbers : j \in RecordsOfWindow(tamper_type, f, k)

CodsOf(rows) == {det_df[i].cod : i \in rows}

FlatWindow(f, k) ==
    /\ Cardinality(TumblingWindow(f, k)) >= 2
    /\ \A x, y \in CodsOf(TumblingWindow(f, k)) : x - y < TINY_EPS

\* C22: the zero-variance detector cuts each factory's non-null-cod rows into
\* consecutive tumbling windows and returns exactly one ZERO_VARIANCE record
\* for each window with two samples or more whose max - min is below 1e-4,
\* and no record for any other window.
C22_OneRecordPerFlatWindow ==
    (det_name = "zero_variance" /\ det_pc = "done") =>
        /\ EveryRecordHasWindow("ZERO_VARIANCE")
        /\ \A f \in DetFactories, k \in WindowNumbers :
              Cardinality(RecordsOfWindow("ZERO_VARIANCE", f, k))
                 = IF FlatWindow(f, k) THEN 1 ELSE 0

\* one factory has a flat window that is flagged and a later window with two
\* samples that is not, while the other factory's rows lie in the same minutes
C22_Witness ==
    /\ det_name = "zero_variance" /\ det_pc = "done"
    /\ det_window_minutes = 1
    /\ FlatWindow("FACTORY_A", 0)
    /\ Cardinality(TumblingWindow("FACTORY_A", 1)) >= 2
    /\ ~FlatWindow("FACTORY_A", 1)
    /\ Cardinality(RecordsOfWindow("ZERO_VARIANCE", "FACTORY_A", 0)) = 1
    /\ ConsideredTimed("FACTORY_B") # {}

\* ------------------------------------------------------------------------
\* Causal attribution: properties
\* ------------------------------------------------------------------------
RECURSIVE SumDetail(_, _)
SumDetail(detail, n) == IF n = 0 THEN 0 ELSE detail[n] + SumDetail(detail, n - 1)

\* C23: for every non-empty map of sensor z-scores, whatever the number of
\* sensors, the rounded fractions written to attribution_detail sum to 1.0
\* within 0.01.
C23_FractionsSumToOne ==
    attribution_detail # NoDetail =>
        LET total == SumDetail(attribution_detail, Cardinality(DOMAIN attribution_detail))
        IN total >= 1000 - 10 /\ total <= 1000 + 10

\* ------------------------------------------------------------------------
\* Pipeline runner process: properties
\* ------------------------------------------------------------------------
\* C24: the runner's exit code is 0 on normal shutdown and 2 when an input
\* directory is missing (1 being kept for a configuration that fails
\* validation).
C24_ExitCodeNamesTheFailure ==
    run_pc = "exited" =>
        IF cetp_dir \notin existing_dirs THEN exit_code = 2 ELSE exit_code = 0

\* ------------------------------------------------------------------------
\* Stage boundaries: properties
\* ------------------------------------------------------------------------
\* C25: no exception escapes a stage function: attribute_event returns a
\* result for every CETP event time it is given, an empty or unparseable
\* one included.
C25_AttributeEventNeverRaises ==
    evidence.status # "raised"

\* ------------------------------------------------------------------------
\* Counter store: properties
\* ------------------------------------------------------------------------
\* C26: the counters are independent per sensor: an update for one sensor
\* changes no other sensor's counter, and get changes no counter at all.
C26_CountersIndependent ==
    [][ /\ \A s \in SensorIds :
              store_get(counts', s) # store_get(counts, s) =>
                 /\ Len(scored') = Len(scored) + 1
                 /\ scored'[Len(scored')].sensor_id = s
        /\ scored' = scored => counts' = counts
      ]_vars

\* both sensors hold a positive counter, the two differ, and get has just
\* returned one of them
C26_Witness ==
    /\ store_get(counts, "S1") = 3
    /\ store_get(counts, "S2") = 1
    /\ last_get = 3
    /\ Len(scored) = 4

RECURSIVE SerialCount(_, _)
\* the counter after the calls of the threads in `order`, one after another
SerialCount(order, count) ==
    IF order = <<>> THEN count
    ELSE SerialCount(Tail(order), update_new_count(count, thread_anomaly[Head(order)]))

\* the orders in which the threads' calls can be serialised
SerialOrders ==
    {order \in [1..MaxThreads -> Threads] :
        \A a, b \in 1..MaxThreads : a # b => order[a] # order[b]}

\* C27: when update calls for the same sensor run concurrently, the counter
\* they leave equals the result of the calls in some serial order: no
\* increment and no reset is lost.
C27_ConcurrentUpdatesSerialisable ==
    (\A th \in Threads : thread_pc[th] = "done") =>
        \E order \in SerialOrders :
            store_get(counts, SharedSensor) = SerialCount(order, start_count)

\* ------------------------------------------------------------------------
\* Dilution detector: properties
\* ------------------------------------------------------------------------
\* a window of three rows or more
Qualified(f, k) == Cardinality(TumblingWindow(f, k)) >= 3

\* window b is the most recent qualified window of the factory before k
IsBaseline(f, b, k) ==
    /\ b < k
    /\ Qualified(f, b)
    /\ \A j \in WindowNumbers : (b < j /\ j < k) => ~Qualified(f, j)

\* the mean cod of window k is at most (1 - COD_DROP_FRACTION) of the mean of
\* window b, and its mean tss at least (1 - TSS_STABLE_FRACTION) of that of b
DropsAgainst(f, k, b) ==
    LET cur_rows == TumblingWindow(f, k)
        base_rows == TumblingWindow(f, b)
        n == Cardinality(cur_rows)
        m == Cardinality(base_rows)
    IN  /\ sum_cod(det_df, cur_rows) * m * 100
              <= sum_cod(det_df, base_rows) * (100 - COD_DROP_PERCENT) * n
        /\ sum_tss(det_df, cur_rows) * m * 100
              >= sum_tss(det_df, base_rows) * (100 - TSS_STABLE_PERCENT) * n

Diluted(f, k) ==
    /\ Qualified(f, k)
    /\ \E b \in WindowNumbers : IsBaseline(f, b, k) /\ DropsAgainst(f, k, b)

\* C28: in the dilution detector each tumbling window with three rows or
\* more is compared with the most recent earlier window of the same factory
\* with three rows or more, and is flagged exactly when its mean cod is at
\* most (1 - COD_DROP_FRACTION) of that baseline's and its mean tss at least
\* (1 - TSS_STABLE_FRACTION) of it; a factory's first such window is never
\* flagged and a baseline is never carried from one factory to the next.
C28_FlaggedIffDropAgainstBaseline ==
    (det_name = "chemical_fingerprint" /\ det_pc = "done") =>
        /\ EveryRecordHasWindow("DILUTION_TAMPER")
        /\ \A f \in DetFactories, k \in WindowNumbers :
              Cardinality(RecordsOfWindow("DILUTION_TAMPER", f, k))
                 = IF Diluted(f, k) THEN 1 ELSE 0

\* factory A: a full window, then a window of two rows, then a diluted window
\* flagged against the first; factory B starts with a diluted window that is
\* not flagged
C28_Witness ==
    /\ det_name = "chemical_fingerprint" /\ det_pc = "done"
    /\ det_window_minutes = 1
    /\ Qualified("FACTORY_A", 0)
    /\ Cardinality(TumblingWindow("FACTORY_A", 1)) = 2
    /\ Diluted("FACTORY_A", 2)
    /\ Cardinality(RecordsOfWindow("DILUTION_TAMPER", "FACTORY_A", 2)) = 1
    /\ Qualified("FACTORY_B", 0)
    /\ Len(det_records) = 1

\* ------------------------------------------------------------------------
\* Cooldown store: properties
\* ------------------------------------------------------------------------
\* the row handled in this step is older than the last alert of its point
OutOfOrder(row) ==
    /\ ~strptime_fails(row.timestamp)
    /\ row.discharge_point_id \in DOMAIN last_alert
    /\ strptime(row.timestamp) < last_alert[row.discharge_point_id]

\* C29: with ALERT_COOLDOWN_SECONDS > 0 the last-alert time stored for a
\* discharge point never decreases: a row whose parsed timestamp is earlier
\* than the stored one is suppressed and does not overwrite it.
C29_LastAlertNeverDecreases ==
    [][ cfg_cooldown > 0 =>
          /\ \A d \in DOMAIN last_alert :
                d \in DOMAIN last_alert' /\ last_alert'[d] >= last_alert[d]
          /\ OutOfOrder(cur'.row) =>
                /\ last_alert' = last_alert
                /\ emitted' = emitted
                /\ cur'.status = IF band_passes_threshold(cfg_min_band, cur'.row.risk_band)
                                 THEN "suppressed" ELSE "dropped"
      ]_vars

\* a row older than the stored alert by the whole cooldown or more has been
\* suppressed
C29_Witness ==
    /\ cfg_cooldown > 0
    /\ cur.status = "suppressed"
    /\ cur.row.discharge_point_id \in DOMAIN last_alert
    /\ ~strptime_fails(cur.row.timestamp)
    /\ strptime(cur.row.timestamp) + cfg_cooldown <= last_alert[cur.row.discharge_point_id]

\* ------------------------------------------------------------------------
\* Tumbling windows of the detectors: properties
\* ------------------------------------------------------------------------
\* the detector scans the group: it is not skipped before the loop
Scanned(f) ==
    IF det_name = "chemical_fingerprint"
    THEN Cardinality(Considered(f)) >= 6
    ELSE Considered(f) # {}

\* the windows the loop has cut for factory f that hold row i
WindowsHolding(f, i) ==
    {w \in 1..Len(det_windows) :
        det_windows[w].factory_id = f /\ i \in det_windows[w].rows}

\* the windows a record was built from
WindowsOfRecord(j) ==
    {w \in 1..Len(det_windows) :
        /\ det_windows[w].factory_id = det_records[j].factory_id
        /\ det_records[j].window_end \in {det_df[i].time : i \in det_windows[w].rows}}

\* the records row i contributes to
RecordsUsing(i) ==
    {j \in 1..Len(det_records) :
        \E w \in WindowsOfRecord(j) : i \in det_windows[w].rows}

\* no row lies in two windows and no row contributes to two records
NoRowUsedTwice ==
    \A f \in DetFactories : \A i \in Considered(f) :
        /\ Cardinality(WindowsHolding(f, i)) <= 1
        /\ Cardinality(RecordsUsing(i)) <= 1

\* every window is the half-open interval [t, t + w) of its factory's rows
WindowsAreIntervals ==
    \A w \in 1..Len(det_windows) :
        det_windows[w].rows =
            {i \in ConsideredTimed(det_windows[w].factory_id) :
                /\ det_df[i].time * 60 >= det_windows[w].t
                /\ det_df[i].time * 60 < det_windows[w].t + det_window_minutes * 60}

\* C30 as stated: each detector terminates, and the tumbling windows
\* partition each factory's considered rows: every considered row falls in
\* exactly one window and none contributes to two records of the same type.
C30_EveryConsideredRowInOneWindow ==
    /\ <>(det_pc = "done")
    /\ [](NoRowUsedTwice /\ WindowsAreIntervals)
    /\ [](det_pc = "done" =>
            \A f \in DetFactories : Scanned(f) =>
                \A i \in Considered(f) : Cardinality(WindowsHolding(f, i)) = 1)

\* C30, corrected: each detector terminates when the window is one minute or
\* longer, and the tumbling windows [t, t + w) partition the considered rows
\* of each scanned factory whose time parses: each of them falls in exactly
\* one window, a considered row whose time does not parse falls in none, and
\* no row contributes to two records of the same type.
C30_TimedRowsInOneWindow ==
    /\ <>(det_pc = "done")
    /\ [](NoRowUsedTwice /\ WindowsAreIntervals)
    /\ [](det_pc = "done" =>
            \A f \in DetFactories : Scanned(f) =>
                \A i \in Considered(f) :
                    Cardinality(WindowsHolding(f, i))
                       = IF det_df[i].time # BadTimestamp THEN 1 ELSE 0)

\* the zero-variance detector has returned; factory A's rows fill two windows
\* or more, one of them flagged, and one of its rows has no parseable time
C30_Witness ==
    /\ det_pc = "done"
    /\ det_name = "zero_variance"
    /\ \E i \in Considered("FACTORY_A") : det_df[i].time = BadTimestamp
    /\ \E i, j \in ConsideredTimed("FACTORY_A") :
          WindowsHolding("FACTORY_A", i) # WindowsHolding("FACTORY_A", j)
    /\ det_records # <<>>

====
